---- MODULE Spec2Model ----
(***************************************************************************)
(* Model of the inventory pipeline's infrastructure scripts:               *)
(*   infra/deploy.py    the provisioner (ensure_* steps, wait_lambda_ready,*)
(*                      call_with_retries, main)                           *)
(*   infra/teardown.py  the deprovisioner (empty_bucket, main)             *)
(* and of the three Lambda handlers under lambdas/.                        *)
(* The cloud provider is the environment: its resources are the state, and *)
(* each provider call may succeed or fail as the provider decides.         *)
(***************************************************************************)
EXTENDS Integers, Sequences, FiniteSets, TLC

VARIABLES
    \* ---- call_with_retries (deploy.py:87-102)
    cr_pc,        \* "loop" | "sleep" | "returned" | "raised"
    cr_i,         \* iterations of `for _ in range(retries)` completed
    cr_hist,      \* outcome of every invocation of fn, in order
    cr_last,      \* last_exc
    cr_slept,     \* seconds spent in time.sleep
    cr_out,       \* what the caller gets: the result returned or the exception raised
    \* ---- wait_lambda_ready (deploy.py:72-84)
    w_pc,         \* "poll" | "sleep" | "returned" | "raised" | "error"
    w_timeout,    \* timeout_s
    w_t0,         \* t0
    w_now,        \* time.time()
    w_obs,        \* (state, last_update) of the last get_function_configuration
    w_polls,      \* number of status queries made
    w_qdur,       \* duration of the last status query
    w_err,        \* the TimeoutError raised, or NoErr
    \* ---- the provider's resources (what boto3 calls read and change)
    buckets,      \* names of the S3 buckets that exist
    bucketItems,  \* bucket name -> kinds of entries it holds
    table,        \* the DynamoDB table: [exists, stream]; stream 0 = disabled
    functions,    \* names of the Lambda functions that exist
    mappings,     \* event source mappings: [uuid, fn, stream]
    topics,       \* names of the SNS topics that exist
    subs,         \* SNS subscriptions: [topic, arn]
    apis,         \* HTTP APIs: [id, name]
    integrations, \* [id, api, uri]
    routes,       \* [id, api, key]
    stages,       \* ids of the APIs that have a $default stage
    perms,        \* Lambda resource-policy statements: [fn, sid]
    \* ---- teardown.main (teardown.py:39-126)
    td_pc,        \* the step teardown.main is at
    td_suffix,    \* SUFFIX
    td_run,       \* how many times teardown has been started
    td_calls,     \* provider calls issued in this run, in order
    td_printed,   \* lines printed in this run
    td_failed,    \* operations that failed (ClientError other than "not found")
    td_faults,    \* provider calls so far that failed though they could have succeeded
    td_exit,      \* "running" | "success" | "exception"
    td_exc,       \* the outcome of the call whose exception ended the run
    \* ---- deploy.main (deploy.py:300-398)
    d_pc,         \* the step deploy.main is at
    d_env,        \* the environment: SUFFIX, LAMBDA_ROLE_ARN, NOTIFY_EMAIL
    d_run,        \* how many times the provisioner has been started
    d_loc,        \* main's locals: stream_arn, arn_a, arn_b, arn_c, api_id, ...
    d_calls,      \* provider calls issued in this run, in order
    d_created,    \* resources this run created
    d_exit,       \* "running" | "ok" | the exception that ended the run
    d_faults,     \* provider calls so far that failed though they could have succeeded
    d_prev,       \* how the previous run ended and the resource counts it left
    \* ---- the Lambda handlers (lambdas/*/lambda_function.py)
    h_pc,         \* "idle" | "start" | "returned" | "raised"
    h_in,         \* the invocation: handler, event, environment, failing call
    h_ret,        \* what lambda_handler returned
    h_pub,        \* messages published to the topic, in order
    h_items,      \* the rows of the table: [Store, Item, Count]
    h_log         \* calls made on the table and the bucket, in order

retryVars == <<cr_pc, cr_i, cr_hist, cr_last, cr_slept, cr_out>>
waitVars  == <<w_pc, w_timeout, w_t0, w_now, w_obs, w_polls, w_qdur, w_err>>
provVars  == <<buckets, bucketItems, table, functions, mappings, topics, subs,
               apis, integrations, routes, stages, perms>>
tdVars    == <<td_pc, td_suffix, td_run, td_calls, td_printed, td_failed, td_faults,
               td_exit, td_exc>>
depVars   == <<d_pc, d_env, d_run, d_loc, d_calls, d_created, d_exit, d_faults, d_prev>>
hVars     == <<h_pc, h_in, h_ret, h_pub, h_items, h_log>>
vars      == <<retryVars, waitVars, provVars, tdVars, depVars, hVars>>

\* What each function leaves alone.
exceptRetry == <<waitVars, provVars, tdVars, depVars, hVars>>
exceptWait  == <<retryVars, provVars, tdVars, depVars, hVars>>
exceptTd    == <<retryVars, waitVars, depVars, hVars>>
exceptDep   == <<retryVars, waitVars, tdVars, hVars>>
exceptH     == <<retryVars, waitVars, provVars, tdVars, depVars>>

-----------------------------------------------------------------------------
(***************************************************************************)
(* call_with_retries                                                       *)
(***************************************************************************)

\* retries: int = 8
Retries == 8
\* sleep_s: int = 2
SleepS == 2

\* The provider error codes call_with_retries treats as a transient conflict.
TransientCodes == {"ResourceConflictException", "TooManyRequestsException"}

\* Error codes a ClientError of the wrapped operation may carry; "" is a
\* response without a Code (e.response["Error"].get("Code", "")).
ErrorCodes == TransientCodes \cup {"AccessDeniedException", ""}

NoExc == [cls |-> "None", code |-> "", attempt |-> 0]

\* What one invocation of fn() may do: return, raise a ClientError with some
\* code, or raise an exception that is not a ClientError (a botocore
\* connection or validation error).
FnOutcomes(n) ==
    {[cls |-> "ok", code |-> "", attempt |-> n]}
    \cup {[cls |-> "ClientError", code |-> c, attempt |-> n] : c \in ErrorCodes}
    \cup {[cls |-> "Exception", code |-> "", attempt |-> n]}

IsTransientMutAll(code) == TRUE

IsTransientMutNone(code) == FALSE

\* code in ("ResourceConflictException", "TooManyRequestsException")
IsTransient(code) == code \in TransientCodes

\* Whether the except clauses of call_with_retries swallow outcome o and go
\* on to the next iteration: a transient ClientError (lines 92-97) or any
\* other Exception (lines 99-101).
IsRetried(o) ==
    \/ o.cls = "ClientError" /\ IsTransient(o.code)
    \/ o.cls = "Exception"

InitRetry ==
    /\ cr_pc = "loop"
    /\ cr_i = 0
    /\ cr_hist = <<>>
    /\ cr_last = NoExc
    /\ cr_slept = 0
    /\ cr_out = NoExc

\* One pass of the try block: return fn(), or land in an except clause.
CR_Invoke ==
    /\ cr_pc = "loop"
    /\ cr_i < Retries
    /\ \E o \in FnOutcomes(Len(cr_hist) + 1) :
        /\ cr_hist' = Append(cr_hist, o)
        /\ IF o.cls = "ok"
             THEN /\ cr_pc' = "returned"
                  /\ cr_out' = o
                  /\ cr_last' = cr_last
             ELSE IF IsRetried(o)
             THEN /\ cr_pc' = "sleep"
                  /\ cr_last' = o
                  /\ cr_out' = cr_out
             ELSE /\ cr_pc' = "raised"
                  /\ cr_out' = o
                  /\ cr_last' = cr_last
    /\ UNCHANGED <<cr_i, cr_slept, exceptRetry>>

\* time.sleep(sleep_s), then the next iteration of the for loop.
CR_Sleep ==
    /\ cr_pc = "sleep"
    /\ cr_slept' = cr_slept + SleepS
    /\ cr_i' = cr_i + 1
    /\ cr_pc' = "loop"
    /\ UNCHANGED <<cr_hist, cr_last, cr_out, exceptRetry>>

\* The loop ran out: raise last_exc.
CR_Exhausted ==
    /\ cr_pc = "loop"
    /\ cr_i >= Retries
    /\ cr_pc' = "raised"
    /\ cr_out' = cr_last
    /\ UNCHANGED <<cr_i, cr_hist, cr_last, cr_slept, exceptRetry>>

CrDone == cr_pc \in {"returned", "raised"}

-----------------------------------------------------------------------------
(***************************************************************************)
(* wait_lambda_ready                                                       *)
(***************************************************************************)

\* timeout_s: int = 120
DefaultTimeoutS == 120
\* time.sleep(2)
PollIntervalS == 2

\* Longest a single get_function_configuration call takes, in seconds.
MaxQueryDur == 1
\* Short timeouts besides the default, 0 .. MaxShortTimeout.
MaxShortTimeout == 3

TimeoutChoices == (0 .. MaxShortTimeout) \cup {DefaultTimeoutS}

\* cfg.get("State", "Unknown"), cfg.get("LastUpdateStatus", "Unknown")
LambdaStates == {"Pending", "Active", "Failed", "Unknown"}
LastUpdateStatuses == {"Successful", "InProgress", "Unknown"}
Observations == [state : LambdaStates, last_update : LastUpdateStatuses]

NoObs == [state |-> "None", last_update |-> "None"]
NoErr == [cls |-> "None"]

IsReadyMutActiveOnly(o) == o.state = "Active"
IsReadyMutSuccessfulOnly(o) == o.state = "Active" /\ o.last_update = "Successful"

\* state == "Active" and last_update in ("Successful", "Unknown")
IsReady(o) == o.state = "Active" /\ o.last_update \in {"Successful", "Unknown"}

TimedOutMutAtLeast(now, t0, timeout) == now - t0 >= timeout

\* time.time() - t0 > timeout_s
TimedOut(now, t0, timeout) == now - t0 > timeout

InitWait ==
    /\ w_pc = "poll"
    /\ w_timeout \in TimeoutChoices
    /\ w_t0 = 0
    /\ w_now = 0
    /\ w_obs = NoObs
    /\ w_polls = 0
    /\ w_qdur = 0
    /\ w_err = NoErr

\* One pass of the while loop up to the sleep: query, readiness check,
\* timeout check.
W_Poll ==
    /\ w_pc = "poll"
    /\ \E d \in 0 .. MaxQueryDur, o \in Observations :
        /\ w_now' = w_now + d
        /\ w_qdur' = d
        /\ w_obs' = o
        /\ w_polls' = w_polls + 1
        /\ IF IsReady(o)
             THEN w_pc' = "returned" /\ w_err' = w_err
             ELSE IF TimedOut(w_now + d, w_t0, w_timeout)
             THEN /\ w_pc' = "raised"
                  /\ w_err' = [cls |-> "TimeoutError", timeout_s |-> w_timeout,
                               state |-> o.state, last_update |-> o.last_update]
             ELSE w_pc' = "sleep" /\ w_err' = w_err
    /\ UNCHANGED <<w_timeout, w_t0, exceptWait>>

\* get_function_configuration itself raises (the function is gone, access
\* denied): the ClientError leaves wait_lambda_ready.
W_QueryFails ==
    /\ w_pc = "poll"
    /\ \E d \in 0 .. MaxQueryDur :
        /\ w_now' = w_now + d
        /\ w_qdur' = d
    /\ w_polls' = w_polls + 1
    /\ w_pc' = "error"
    /\ w_err' = [cls |-> "ClientError"]
    /\ UNCHANGED <<w_timeout, w_t0, w_obs, exceptWait>>

\* time.sleep(2)
W_Sleep ==
    /\ w_pc = "sleep"
    /\ w_now' = w_now + PollIntervalS
    /\ w_pc' = "poll"
    /\ UNCHANGED <<w_timeout, w_t0, w_obs, w_polls, w_qdur, w_err, exceptWait>>

WaitDone == w_pc \in {"returned", "raised", "error"}

-----------------------------------------------------------------------------
(***************************************************************************)
(* The provider's resources and the names the scripts derive               *)
(***************************************************************************)

\* Deployment suffixes (SUFFIX).
Suffixes == {"dev"}

\* f"inventory-uploads-{suffix}", f"inventory-web-{suffix}"
UploadsBucket(s) == "inventory-uploads-" \o s
WebBucket(s) == "inventory-web-" \o s
\* f"inventory-api-{suffix}"
ApiName(s) == "inventory-api-" \o s
\* f"inventory-low-stock-{suffix}"
TopicName(s) == "inventory-low-stock-" \o s
\* f"load_inventory_{suffix}", f"get_inventory_api_{suffix}", f"notify_low_stock_{suffix}"
FnA(s) == "load_inventory_" \o s
FnB(s) == "get_inventory_api_" \o s
FnC(s) == "notify_low_stock_" \o s

\* for fn in [fn_a, fn_b, fn_c]
TdFunctions(s) == <<FnA(s), FnB(s), FnC(s)>>
TdBucketsMutUploadsOnly(s) == <<UploadsBucket(s), UploadsBucket(s)>>

\* for b in [uploads_bucket, web_bucket]
TdBuckets(s) == <<UploadsBucket(s), WebBucket(s)>>

\* The suffix of another deployment in the same account and region.
OtherSuffix == "qa"

AllBuckets == UNION {{UploadsBucket(s), WebBucket(s)} : s \in Suffixes \cup {OtherSuffix}}
AllFunctions == UNION {{FnA(s), FnB(s), FnC(s)} : s \in Suffixes \cup {OtherSuffix}}

\* What a bucket may hold: noncurrent object versions, delete markers (both
\* only if versioning was ever enabled) and current objects.
ItemKinds == {"version", "marker", "object"}

\* How a provider call ends: it returns, it raises botocore's ClientError
\* (the provider answered with an error), or it raises something else (no
\* answer: a connection error, missing credentials).
Outcomes == {"ok", "ClientError", "Other"}

\* The integers of S in ascending order: the order in which a provider
\* listing returns the resources with these identifiers.
RECURSIVE Ascending(_)
Ascending(S) ==
    IF S = {} THEN <<>>
    ELSE LET m == CHOOSE x \in S : \A y \in S : x <= y
         IN <<m>> \o Ascending(S \ {m})

\* The smallest identifier in 1, 2, ... that S does not use.
FreshId(S) == CHOOSE n \in 1 .. (Cardinality(S) + 1) : n \notin S

CaughtByMainMutNothing(o) == FALSE

\* except ClientError: the handlers of teardown.main catch the provider's
\* error answers and nothing else.
CaughtByMain(o) == o = "ClientError"

\* The call raised and no except ClientError clause stops the exception.
Escapes(o) == o # "ok" /\ ~CaughtByMain(o)

FirstEscapeMutAnyFailure(ov) ==
    IF \E j \in 1 .. Len(ov) : ov[j] # "ok"
    THEN CHOOSE j \in 1 .. Len(ov) : ov[j] # "ok" /\ \A i \in 1 .. (j - 1) : ov[i] = "ok"
    ELSE Len(ov) + 1

\* Index of the first element of sequence ov that escapes, Len(ov) + 1 if
\* none: where a loop over provider calls is left by an uncaught exception.
FirstEscape(ov) ==
    IF \E j \in 1 .. Len(ov) : Escapes(ov[j])
    THEN CHOOSE j \in 1 .. Len(ov) : Escapes(ov[j]) /\ \A i \in 1 .. (j - 1) : ~Escapes(ov[i])
    ELSE Len(ov) + 1

\* Index of the first element of ov that is not "ok", Len(ov) + 1 if none:
\* where a loop inside one try block is left by any exception.
FirstNotOk(ov) ==
    IF \E j \in 1 .. Len(ov) : ov[j] # "ok"
    THEN CHOOSE j \in 1 .. Len(ov) : ov[j] # "ok" /\ \A i \in 1 .. (j - 1) : ov[i] = "ok"
    ELSE Len(ov) + 1

-----------------------------------------------------------------------------
(***************************************************************************)
(* teardown.main                                                           *)
(***************************************************************************)

\* The categories of the teardown sequence, in the order the specification
\* lists them.
CatApi == 1
CatMapping == 2
CatFunction == 3
CatTopic == 4
CatTable == 5
CatBucket == 6

Call(op, cat, tgt, id, del) == [op |-> op, cat |-> cat, tgt |-> tgt, id |-> id, del |-> del]
Line(text, cat) == [text |-> text, cat |-> cat]

\* Largest number of times the teardown is run in a row.
MaxTeardownRuns == 2
\* Largest number of provider calls, over these runs, that fail though the
\* provider could have carried them out.
MaxFaults == 2

\* How many of the calls `tried`, with outcomes ov, failed.
Faults(ov, tried) == Cardinality({j \in tried : ov[j] # "ok"})

TdStepsMutTableFirst ==
    <<"api", "table", "fn1", "fn2", "fn3", "topic", "bucket1", "bucket2", "done">>

\* The blocks of main in program order: 1) API, 2) the three passes of the
\* function loop, 3) SNS, 4) table, 5) the two passes of the bucket loop,
\* the final print.
TdSteps == <<"api", "fn1", "fn2", "fn3", "topic", "table", "bucket1", "bucket2", "done">>

\* The block that follows block pc.
TdNext(pc) ==
    LET i == CHOOSE j \in 1 .. Len(TdSteps) : TdSteps[j] = pc IN TdSteps[i + 1]

TdStart(s) ==
    /\ td_pc = TdSteps[1]
    /\ td_suffix = s
    /\ td_calls = <<>>
    /\ td_printed = {Line("== TEARDOWN ==", 0)}
    /\ td_failed = {}
    /\ td_exit = "running"
    /\ td_exc = "None"

\* An exception no except clause of main catches: the traceback ends the run.
TdCrash(calls, n, exc) ==
    /\ td_faults + n <= MaxFaults
    /\ td_faults' = td_faults + n
    /\ td_pc' = "crashed"
    /\ td_exit' = "exception"
    /\ td_exc' = exc
    /\ td_calls' = td_calls \o calls
    /\ UNCHANGED <<td_printed, td_failed, td_suffix, td_run>>

\* The step ends, normally or through an except ClientError clause, and
\* main goes on to `next`.
TdGoOn(next, calls, lines, failedOps, n) ==
    /\ td_faults + n <= MaxFaults
    /\ td_faults' = td_faults + n
    /\ td_pc' = next
    /\ td_calls' = td_calls \o calls
    /\ td_printed' = td_printed \cup lines
    /\ td_failed' = td_failed \cup failedOps
    /\ UNCHANGED <<td_exit, td_exc, td_suffix, td_run>>

\* 1) API Gateway: delete every API of the derived name (lines 65-72).
TD_DeleteApis ==
    /\ td_pc = "api"
    /\ \E lo \in Outcomes :
        LET getCall == <<Call("get_apis", CatApi, "", 0, FALSE)>> IN
        CASE Escapes(lo) ->
               TdCrash(getCall, 1, lo) /\ UNCHANGED provVars
          [] CaughtByMain(lo) ->
               /\ TdGoOn(TdNext(td_pc), getCall, {Line("API delete error", CatApi)}, {"get_apis"}, 1)
               /\ UNCHANGED provVars
          [] lo = "ok" ->
               LET ids == Ascending({a.id : a \in {x \in apis : x.name = ApiName(td_suffix)}})
               IN \E ov \in [1 .. Len(ids) -> Outcomes] :
                    LET k == FirstNotOk(ov)
                        tried == 1 .. (IF k <= Len(ids) THEN k ELSE Len(ids))
                        gone == {ids[j] : j \in {i \in tried : ov[i] = "ok"}}
                        calls == getCall \o
                                 [j \in tried |-> Call("delete_api", CatApi, ApiName(td_suffix), ids[j], TRUE)]
                        lines == {Line("Deleted API", CatApi) : j \in {i \in tried : ov[i] = "ok"}}
                    IN /\ apis' = {a \in apis : a.id \notin gone}
                       /\ integrations' = {x \in integrations : x.api \notin gone}
                       /\ routes' = {x \in routes : x.api \notin gone}
                       /\ stages' = stages \ gone
                       /\ UNCHANGED <<buckets, bucketItems, table, functions, mappings,
                                      topics, subs, perms>>
                       /\ IF k <= Len(ids) /\ Escapes(ov[k])
                            THEN TdCrash(calls, 1, ov[k])
                            ELSE IF k <= Len(ids)
                            THEN TdGoOn(TdNext(td_pc), calls,
                                        lines \cup {Line("API delete error", CatApi)}, {"delete_api"}, 1)
                            ELSE TdGoOn(TdNext(td_pc), calls, lines, {}, 0)
    /\ UNCHANGED exceptTd

\* 2) One pass of `for fn in [fn_a, fn_b, fn_c]`: the function's event
\* source mappings, then the function (lines 75-89).
TD_DeleteFunction(i) ==
    /\ td_pc = "fn" \o ToString(i)
    /\ LET fn == TdFunctions(td_suffix)[i]
           next == TdNext(td_pc)
           listCall == <<Call("list_event_source_mappings", CatMapping, fn, 0, FALSE)>>
       IN \E lo \in Outcomes :
           CASE Escapes(lo) ->
                  TdCrash(listCall, 1, lo) /\ UNCHANGED provVars
             [] CaughtByMain(lo) ->
                  \* except ClientError: pass -- delete_function is skipped
                  TdGoOn(next, listCall, {}, {"list_event_source_mappings"}, 1) /\ UNCHANGED provVars
             [] lo = "ok" ->
                  LET ms == Ascending({m.uuid : m \in {x \in mappings : x.fn = fn}})
                  IN \E ov \in [1 .. Len(ms) -> Outcomes], fo \in Outcomes :
                       LET k == FirstEscape(ov)
                           tried == 1 .. (IF k <= Len(ms) THEN k ELSE Len(ms))
                           gone == {ms[j] : j \in {x \in tried : ov[x] = "ok"}}
                           mcalls == [j \in tried |->
                                        Call("delete_event_source_mapping", CatMapping, fn, ms[j], TRUE)]
                           mlines == {Line("Deleted mapping", CatMapping) : j \in {x \in tried : ov[x] = "ok"}}
                           mfail == {"delete_event_source_mapping" : j \in {x \in tried : CaughtByMain(ov[x])}}
                           fcall == <<Call("delete_function", CatFunction, fn, 0, TRUE)>>
                       IN /\ mappings' = {m \in mappings : m.uuid \notin gone}
                          /\ UNCHANGED <<buckets, bucketItems, table, topics, subs, apis,
                                         integrations, routes, stages>>
                          /\ IF k <= Len(ms)
                               THEN /\ TdCrash(listCall \o mcalls, Faults(ov, tried), ov[k])
                                    /\ UNCHANGED <<functions, perms>>
                               ELSE CASE Escapes(fo) ->
                                           /\ TdCrash(listCall \o mcalls \o fcall,
                                                      Faults(ov, tried) + 1, fo)
                                           /\ UNCHANGED <<functions, perms>>
                                      [] CaughtByMain(fo) ->
                                           \* ResourceNotFoundException when the function
                                           \* is absent, any other failure when it exists
                                           /\ TdGoOn(next, listCall \o mcalls \o fcall, mlines,
                                                     mfail \cup (IF fn \in functions THEN {"delete_function"} ELSE {}),
                                                     Faults(ov, tried) + (IF fn \in functions THEN 1 ELSE 0))
                                           /\ UNCHANGED <<functions, perms>>
                                      [] fo = "ok" ->
                                           \* the provider deletes only what exists
                                           /\ fn \in functions
                                           /\ functions' = functions \ {fn}
                                           /\ perms' = {x \in perms : x.fn # fn}
                                           /\ TdGoOn(next, listCall \o mcalls \o fcall,
                                                     mlines \cup {Line("Deleted Lambda", CatFunction)},
                                                     mfail, Faults(ov, tried))
    /\ UNCHANGED exceptTd

\* 3) SNS: the topic of the derived name, after its confirmed subscriptions
\* (lines 92-108).
TD_DeleteTopic ==
    /\ td_pc = "topic"
    /\ LET name == TopicName(td_suffix)
           listCall == <<Call("list_topics", CatTopic, "", 0, FALSE)>>
           err == {Line("SNS delete error", CatTopic)}
       IN \E lo \in Outcomes, so \in Outcomes, do \in Outcomes :
           CASE Escapes(lo) ->
                  TdCrash(listCall, 1, lo) /\ UNCHANGED provVars
             [] CaughtByMain(lo) ->
                  TdGoOn(TdNext(td_pc), listCall, err, {"list_topics"}, 1) /\ UNCHANGED provVars
             [] lo = "ok" /\ name \notin topics ->
                  \* no ARN ends with ":" + topic_name
                  TdGoOn(TdNext(td_pc), listCall, {}, {}, 0) /\ UNCHANGED provVars
             [] lo = "ok" /\ name \in topics ->
                  LET subsCall == listCall \o
                          <<Call("list_subscriptions_by_topic", CatTopic, name, 0, FALSE)>>
                      ss == Ascending({x.id : x \in {y \in subs :
                                y.topic = name /\ y.arn # "PendingConfirmation"}})
                  IN CASE Escapes(so) ->
                            TdCrash(subsCall, 1, so) /\ UNCHANGED provVars
                       [] CaughtByMain(so) ->
                            TdGoOn(TdNext(td_pc), subsCall, err, {"list_subscriptions_by_topic"}, 1) /\ UNCHANGED provVars
                       [] so = "ok" ->
                            \E uv \in [1 .. Len(ss) -> Outcomes] :
                              LET k == FirstEscape(uv)
                                  tried == 1 .. (IF k <= Len(ss) THEN k ELSE Len(ss))
                                  gone == {ss[j] : j \in {x \in tried : uv[x] = "ok"}}
                                  ucalls == [j \in tried |->
                                               Call("unsubscribe", CatTopic, name, ss[j], TRUE)]
                                  ufail == {"unsubscribe" : j \in {x \in tried : CaughtByMain(uv[x])}}
                                  dcall == <<Call("delete_topic", CatTopic, name, 0, TRUE)>>
                              IN /\ UNCHANGED <<buckets, bucketItems, table, functions, mappings,
                                                apis, integrations, routes, stages, perms>>
                                 /\ IF k <= Len(ss)
                                      THEN /\ TdCrash(subsCall \o ucalls, Faults(uv, tried), uv[k])
                                           /\ subs' = {x \in subs : x.id \notin gone}
                                           /\ topics' = topics
                                      ELSE CASE Escapes(do) ->
                                                  /\ TdCrash(subsCall \o ucalls \o dcall, Faults(uv, tried) + 1, do)
                                                  /\ subs' = {x \in subs : x.id \notin gone}
                                                  /\ topics' = topics
                                             [] CaughtByMain(do) ->
                                                  /\ TdGoOn(TdNext(td_pc), subsCall \o ucalls \o dcall,
                                                            err, ufail \cup {"delete_topic"}, Faults(uv, tried) + 1)
                                                  /\ subs' = {x \in subs : x.id \notin gone}
                                                  /\ topics' = topics
                                             [] do = "ok" ->
                                                  /\ TdGoOn(TdNext(td_pc), subsCall \o ucalls \o dcall,
                                                            {Line("Deleted SNS topic", CatTopic)}, ufail,
                                                            Faults(uv, tried))
                                                  /\ topics' = topics \ {name}
                                                  /\ subs' = {x \in subs : x.topic # name}
    /\ UNCHANGED exceptTd

\* DDB_TABLE, default "Inventory": the table's name carries no suffix.
TableName == "Inventory"
NoTable == [exists |-> FALSE, stream |-> 0]

\* 4) DynamoDB table (lines 111-115).
TD_DeleteTable ==
    /\ td_pc = "table"
    /\ LET call == <<Call("delete_table", CatTable, TableName, 0, TRUE)>>
       IN \E o \in Outcomes :
           CASE Escapes(o) ->
                  TdCrash(call, 1, o) /\ UNCHANGED provVars
             [] CaughtByMain(o) ->
                  \* ResourceNotFoundException when there is no table
                  /\ TdGoOn(TdNext(td_pc), call, {},
                            IF table.exists THEN {"delete_table"} ELSE {},
                            IF table.exists THEN 1 ELSE 0)
                  /\ UNCHANGED provVars
             [] o = "ok" ->
                  /\ table.exists
                  /\ table' = NoTable
                  /\ TdGoOn(TdNext(td_pc), call, {Line("Deleted DynamoDB table", CatTable)}, {}, 0)
                  /\ UNCHANGED <<buckets, bucketItems, functions, mappings, topics, subs,
                                 apis, integrations, routes, stages, perms>>
    /\ UNCHANGED exceptTd

\* How one half of empty_bucket ends: everything listed is deleted; the
\* listing raises ClientError; delete_objects raises ClientError; or an
\* exception that is not a ClientError leaves empty_bucket.
PhaseOutcomes == {"ok", "ListError", "DeleteError", "Other"}

\* What list_object_versions returns as Versions and DeleteMarkers: every
\* version of every object, the current ones included, and the markers.
ListedByVersions(items) == items
\* What list_objects_v2 returns as Contents: the current objects.
ListedByObjects(items) == items \cap {"object"}

EmptyPhaseMutNoDelete(b, items, listed, listOp, o) ==
    <<items \ listed, <<Call(listOp, CatBucket, b, 0, FALSE)>>>>

\* One try block of empty_bucket (lines 14-26 or 29-36) on bucket b holding
\* `items`, of which the listing returns `listed`: <<items left, calls>>.
EmptyPhase(b, items, listed, listOp, o) ==
    LET list == <<Call(listOp, CatBucket, b, 0, FALSE)>>
        del == <<Call("delete_objects", CatBucket, b, 0, TRUE)>>
    IN CASE o = "ok" -> <<items \ listed, IF listed = {} THEN list ELSE list \o del>>
         [] o = "DeleteError" -> <<items, list \o del>>
         [] OTHER -> <<items, list>>

\* Whether the provider can end the phase that way: a listing of a bucket
\* that does not exist fails, delete_objects is called only `if objs`.
PhasePossible(b, listed, o) ==
    /\ o = "ok" => b \in buckets
    /\ o = "DeleteError" => (b \in buckets /\ listed # {})

\* Whether that ending is a failure the provider was not bound to answer
\* (NoSuchBucket for an absent bucket is).
PhaseFault(b, o) == IF o = "ok" \/ (o = "ListError" /\ b \notin buckets) THEN 0 ELSE 1

\* 5) One pass of `for b in [uploads_bucket, web_bucket]`: empty_bucket,
\* then delete_bucket (lines 118-124).
TD_DeleteBucket(i) ==
    /\ td_pc = "bucket" \o ToString(i)
    /\ LET b == TdBuckets(td_suffix)[i]
           next == TdNext(td_pc)
       IN \E o1 \in PhaseOutcomes, o2 \in PhaseOutcomes, o3 \in Outcomes :
           LET l1 == ListedByVersions(bucketItems[b])
               p1 == EmptyPhase(b, bucketItems[b], l1, "list_object_versions", o1)
               l2 == ListedByObjects(p1[1])
               p2 == EmptyPhase(b, p1[1], l2, "list_objects_v2", o2)
               dcall == <<Call("delete_bucket", CatBucket, b, 0, TRUE)>>
               pf == PhaseFault(b, o1) + PhaseFault(b, o2)
               swallowed == IF pf > 0 THEN {"empty_bucket"} ELSE {}
           IN /\ PhasePossible(b, l1, o1)
              /\ UNCHANGED <<table, functions, mappings, topics, subs, apis, integrations,
                             routes, stages, perms>>
              /\ IF o1 = "Other"
                   THEN TdCrash(p1[2], 1, o1) /\ UNCHANGED <<buckets, bucketItems>>
                   ELSE /\ PhasePossible(b, l2, o2)
                        /\ IF o2 = "Other"
                             THEN /\ TdCrash(p1[2] \o p2[2], PhaseFault(b, o1) + 1, o2)
                                  /\ bucketItems' = [bucketItems EXCEPT ![b] = p1[1]]
                                  /\ buckets' = buckets
                             ELSE CASE Escapes(o3) ->
                                         /\ TdCrash(p1[2] \o p2[2] \o dcall, pf + 1, o3)
                                         /\ bucketItems' = [bucketItems EXCEPT ![b] = p2[1]]
                                         /\ buckets' = buckets
                                    [] CaughtByMain(o3) ->
                                         \* NoSuchBucket, BucketNotEmpty, or another failure
                                         /\ TdGoOn(next, p1[2] \o p2[2] \o dcall, {},
                                                   swallowed \cup (IF b \in buckets THEN {"delete_bucket"} ELSE {}),
                                                   pf + (IF b \in buckets /\ p2[1] = {} THEN 1 ELSE 0))
                                         /\ bucketItems' = [bucketItems EXCEPT ![b] = p2[1]]
                                         /\ buckets' = buckets
                                    [] o3 = "ok" ->
                                         \* the provider deletes only an existing, empty bucket
                                         /\ b \in buckets
                                         /\ p2[1] = {}
                                         /\ TdGoOn(next, p1[2] \o p2[2] \o dcall,
                                                   {Line("Deleted bucket", CatBucket)}, swallowed, pf)
                                         /\ bucketItems' = [bucketItems EXCEPT ![b] = {}]
                                         /\ buckets' = buckets \ {b}
    /\ UNCHANGED exceptTd

\* print("== DONE ==") and the script ends with exit status 0 (line 126).
TD_Done ==
    /\ td_pc = "done"
    /\ td_pc' = "end"
    /\ td_exit' = "success"
    /\ td_printed' = td_printed \cup {Line("== DONE ==", 0)}
    /\ UNCHANGED <<td_suffix, td_run, td_calls, td_failed, td_faults, td_exc, provVars,
                   exceptTd>>

\* The operator runs the teardown script again, with the same SUFFIX.
TD_Rerun ==
    /\ td_pc \in {"end", "crashed"}
    /\ td_run < MaxTeardownRuns
    /\ td_run' = td_run + 1
    /\ td_pc' = TdSteps[1]
    /\ td_calls' = <<>>
    /\ td_printed' = {Line("== TEARDOWN ==", 0)}
    /\ td_failed' = {}
    /\ td_exit' = "running"
    /\ td_exc' = "None"
    /\ UNCHANGED <<td_suffix, td_faults, provVars, exceptTd>>

\* Largest number of HTTP APIs that carry the deployment's name (API names
\* are not unique at the provider).
MaxApis == 2

RouteKeys == {"GET /items", "GET /items/{store}"}

\* f"arn:aws:lambda:...:function:{name}": the ARN is a function of the name.
FunctionArn(name) == "arn:" \o name

\* An API with its integration, its two routes and its $default stage, as a
\* completed provisioning run leaves it.
FullApi(i, s) ==
    [api |-> [id |-> i, name |-> ApiName(s)],
     integrations |-> {[id |-> i, api |-> i, uri |-> FunctionArn(FnB(s))]},
     routes |-> {[id |-> 2 * i - 1, api |-> i, key |-> "GET /items"],
                 [id |-> 2 * i, api |-> i, key |-> "GET /items/{store}"]}]

IdleRetry ==
    /\ cr_pc = "idle" /\ cr_i = 0 /\ cr_hist = <<>> /\ cr_last = NoExc
    /\ cr_slept = 0 /\ cr_out = NoExc

IdleWait ==
    /\ w_pc = "idle" /\ w_timeout = 0 /\ w_t0 = 0 /\ w_now = 0 /\ w_obs = NoObs
    /\ w_polls = 0 /\ w_qdur = 0 /\ w_err = NoErr

IdleProvider ==
    /\ buckets = {} /\ bucketItems = [b \in AllBuckets |-> {}] /\ table = NoTable
    /\ functions = {} /\ mappings = {} /\ topics = {} /\ subs = {} /\ apis = {}
    /\ integrations = {} /\ routes = {} /\ stages = {} /\ perms = {}

IdleTeardown ==
    /\ td_pc = "idle" /\ td_suffix = "" /\ td_run = 0 /\ td_calls = <<>>
    /\ td_printed = {} /\ td_failed = {} /\ td_faults = 0 /\ td_exit = "idle"
    /\ td_exc = "None"

\* os.environ / os.getenv of a variable that is not set.
Unset == "<unset>"

NoLocals ==
    [stream_arn |-> 0, arn_a |-> "", arn_b |-> "", arn_c |-> "", topic_arn |-> "",
     api_id |-> 0, integration_id |-> 0, mapping_uuid |-> 0]

NoCounts == [buckets |-> 0, tables |-> 0, functions |-> 0, apis |-> 0, integrations |-> 0,
             routes |-> 0, topics |-> 0, mappings |-> 0]

\* What is kept of the run before this one: whether it printed DEPLOY OK,
\* the resources it left and those it created.
NoPrev == [ok |-> FALSE, counts |-> NoCounts, created |-> {}]

IdleHandlers ==
    /\ h_pc = "idle" /\ h_in = [handler |-> "none"] /\ h_ret = [ok |-> FALSE]
    /\ h_pub = <<>> /\ h_items = {} /\ h_log = <<>>

IdleDeploy ==
    /\ d_pc = "idle" /\ d_run = 0 /\ d_loc = NoLocals /\ d_calls = <<>>
    /\ d_env = [SUFFIX |-> Unset, LAMBDA_ROLE_ARN |-> Unset, NOTIFY_EMAIL |-> Unset]
    /\ d_created = {} /\ d_exit = "idle" /\ d_faults = 0 /\ d_prev = NoPrev

\* The provider states a teardown may find: every resource of the deployment
\* present or absent, independently; mappings on the notifier and on the
\* loader; subscriptions pending or confirmed; buckets empty or not.
TdCategories == {"api", "functions", "topic", "table", "buckets"}

\* The deployment of suffix s as a completed provisioning run and some use
\* leave it, in one of two variants (v = 2: a second API of the same name,
\* a mapping on the loader and one on an older stream, a bucket that holds
\* only current objects), except for the categories in `absent`; with
\* "stream" in `absent` the table has no stream.
Resources(s, v, absent) ==
    LET n == IF "api" \in absent THEN 0 ELSE IF v = 1 THEN 1 ELSE MaxApis
        hasB == "buckets" \notin absent
    IN
    [apis |-> {FullApi(i, s).api : i \in 1 .. n},
     integrations |-> UNION {FullApi(i, s).integrations : i \in 1 .. n},
     routes |-> UNION {FullApi(i, s).routes : i \in 1 .. n},
     stages |-> 1 .. n,
     functions |-> IF "functions" \in absent THEN {} ELSE {FnA(s), FnB(s), FnC(s)},
     perms |-> {},
     mappings |-> IF "functions" \in absent THEN {}
                  ELSE IF v = 1 THEN {[uuid |-> 1, fn |-> FnC(s), stream |-> 1]}
                  ELSE {[uuid |-> 1, fn |-> FnA(s), stream |-> 1],
                        [uuid |-> 2, fn |-> FnC(s), stream |-> 1],
                        [uuid |-> 3, fn |-> FnC(s), stream |-> 2]},
     topics |-> IF "topic" \in absent THEN {} ELSE {TopicName(s)},
     subs |-> IF "topic" \in absent THEN {}
              ELSE IF v = 1 THEN {[id |-> 1, topic |-> TopicName(s), arn |-> "PendingConfirmation"]}
              ELSE {[id |-> 1, topic |-> TopicName(s), arn |-> "PendingConfirmation"],
                    [id |-> 2, topic |-> TopicName(s), arn |-> "arn:sub"]},
     table |-> IF "table" \in absent THEN NoTable
               ELSE [exists |-> TRUE, stream |-> IF "stream" \in absent THEN 0 ELSE 1],
     buckets |-> IF hasB THEN {UploadsBucket(s), WebBucket(s)} ELSE {},
     items |-> [b \in {UploadsBucket(s), WebBucket(s)} |->
                  IF ~hasB THEN {}
                  ELSE IF b = WebBucket(s) THEN {"object"}
                  ELSE IF v = 1 THEN ItemKinds ELSE {}]]

\* The provider holds the resources r and nothing else.
Holds(r) ==
    /\ apis = r.apis
    /\ integrations = r.integrations
    /\ routes = r.routes
    /\ stages = r.stages
    /\ functions = r.functions
    /\ perms = r.perms
    /\ mappings = r.mappings
    /\ topics = r.topics
    /\ subs = r.subs
    /\ table = r.table
    /\ buckets = r.buckets
    /\ bucketItems = [b \in AllBuckets |-> IF b \in DOMAIN r.items THEN r.items[b] ELSE {}]

Deployed(s, v, absent) == Holds(Resources(s, v, absent))

\* The provider states a teardown may find: the whole deployment, nothing,
\* or the deployment with one category already gone.  The states in which
\* several resources are gone or left behind come from running again after a
\* run in which calls failed.
InitTeardown ==
    /\ \E s \in Suffixes, v \in 1 .. 2, absent \in SUBSET TdCategories :
        /\ Cardinality(absent) <= 1 \/ absent = TdCategories
        /\ TdStart(s)
        /\ Deployed(s, v, absent)
    /\ td_run = 1
    /\ td_faults = 0
    /\ IdleRetry
    /\ IdleWait
    /\ IdleDeploy
    /\ IdleHandlers

NextTeardown ==
    \/ TD_DeleteApis
    \/ \E i \in 1 .. 3 : TD_DeleteFunction(i)
    \/ TD_DeleteTopic
    \/ TD_DeleteTable
    \/ \E i \in 1 .. 2 : TD_DeleteBucket(i)
    \/ TD_Done
    \/ TD_Rerun

SpecTeardown == InitTeardown /\ [][NextTeardown]_vars
\* The interpreter runs the script to its last line or to an uncaught
\* exception.
SpecTeardownFair == SpecTeardown /\ WF_vars(NextTeardown)

-----------------------------------------------------------------------------
-----------------------------------------------------------------------------
(***************************************************************************)
(* deploy.main and the ensure_* functions it calls                         *)
(***************************************************************************)

\* Largest number of times the provisioner is run in a row.
MaxDeployRuns == 2
\* Largest number of provider calls, over these runs, that fail though the
\* provider could have carried them out.
MaxDeployFaults == 1

DeployStepsMutBindingEarly ==
    <<"config", "sts", "bucket1", "bucket2", "table", "lambda_a", "lambda_b",
      "topic", "mapping", "lambda_c", "s3_trigger", "api", "integration", "route1", "route2",
      "stage", "api_permission", "api_endpoint", "upload", "done">>

\* The statements of main in program order (lines 301-398); the steps from
\* "api" to "api_endpoint" are the blocks of ensure_http_api (lines 181-243).
\* Zipping the function sources (lines 339-348) touches no provider
\* resource and is left out.
DeploySteps ==
    <<"config", "sts", "bucket1", "bucket2", "table", "lambda_a", "lambda_b",
      "topic", "lambda_c", "s3_trigger", "api", "integration", "route1", "route2", "stage",
      "api_permission", "api_endpoint", "mapping", "upload", "done">>

DNext(pc) ==
    LET i == CHOOSE j \in 1 .. Len(DeploySteps) : DeploySteps[j] = pc IN DeploySteps[i + 1]

DCallMutDeleteRoute(op, tgt) ==
    [op |-> IF op = "create_route" THEN "delete_route" ELSE op, tgt |-> tgt, err |-> ""]

\* A call, its target and the exception it raised ("" when it returned);
\* a created resource and its name or identifier, named by a text.
DCall(op, tgt) == [op |-> op, tgt |-> tgt, err |-> ""]
\* The call c raising e: "NotFound" and "Conflict" are the provider's answers
\* for a resource that is not there or is there already, "ClientError" any
\* other error answer of the provider.
Raising(c, e) == [c EXCEPT !.err = e]
Made(kind, name) == [kind |-> kind, name |-> name]

\* The calls issued when the k-th call of the list raises (all of them when
\* k = 0, no call raising).
Prefix(cs, k) == IF k = 0 THEN cs ELSE SubSeq(cs, 1, k)

\* The calls issued when the k-th call of the list raises e.
Raised(cs, k, e) == [Prefix(cs, k) EXCEPT ![k] = Raising(cs[k], e)]

\* Exceptions of a provider call that no handler of the step stops: a
\* ClientError the step does not expect, or one that is not a ClientError.
EscapeKinds == {"ClientError", "Other"}
\* wait_lambda_ready raises TimeoutError; get_function_configuration in it
\* may raise like any other call.
WaitEscapeKinds == EscapeKinds \cup {"TimeoutError"}

\* The number of resources of each kind at the provider.
Counts ==
    [buckets |-> Cardinality(buckets),
     tables |-> IF table.exists THEN 1 ELSE 0,
     functions |-> Cardinality(functions),
     apis |-> Cardinality(apis),
     integrations |-> Cardinality(integrations),
     routes |-> Cardinality(routes),
     topics |-> Cardinality(topics),
     mappings |-> Cardinality(mappings)]

DStart ==
    /\ d_pc = DeploySteps[1]
    /\ d_loc = NoLocals
    /\ d_calls = <<>>
    /\ d_created = {}
    /\ d_exit = "running"

\* The step ends and main goes on to the next statement.
DGoOn(calls, made, n) ==
    /\ d_faults + n <= MaxDeployFaults
    /\ d_faults' = d_faults + n
    /\ d_pc' = DNext(d_pc)
    /\ d_calls' = d_calls \o calls
    /\ d_created' = d_created \cup made
    /\ UNCHANGED <<d_env, d_run, d_exit, d_prev>>

\* An exception leaves main: the traceback ends the run.
DAbort(calls, made, n, exc) ==
    /\ d_faults + n <= MaxDeployFaults
    /\ d_faults' = d_faults + n
    /\ d_pc' = "aborted"
    /\ d_exit' = exc
    /\ d_calls' = d_calls \o calls
    /\ d_created' = d_created \cup made
    /\ UNCHANGED <<d_env, d_run, d_prev>>

\* A step whose calls cs all return (k = 0) or whose k-th call raises e.
DEnd(cs, k, e, made) ==
    IF k = 0 THEN DGoOn(cs, made, 0) ELSE DAbort(Raised(cs, k, e), made, 1, e)

SuffixMissing(env) == env.SUFFIX = Unset

RoleMissingMutNever(env) == FALSE

\* `if not lambda_role_arn`: unset or empty.
RoleMissing(env) == env.LAMBDA_ROLE_ARN \in {Unset, ""}

\* Lines 301-312: the settings are read before any client is created.
\* os.environ["SUFFIX"] raises KeyError when SUFFIX is not set.
D_Config ==
    /\ d_pc = "config"
    /\ IF SuffixMissing(d_env)
         THEN DAbort(<<>>, {}, 0, "KeyError: 'SUFFIX'")
         ELSE IF RoleMissing(d_env)
         THEN DAbort(<<>>, {}, 0, "RuntimeError: Falta LAMBDA_ROLE_ARN en .env")
         ELSE DGoOn(<<>>, {}, 0)
    /\ UNCHANGED <<d_loc, provVars, exceptDep>>

\* Line 319: sts.get_caller_identity()
D_CallerIdentity ==
    /\ d_pc = "sts"
    /\ \E k \in 0 .. 1, e \in EscapeKinds :
         DEnd(<<DCall("get_caller_identity", "")>>, k, e, {})
    /\ UNCHANGED <<d_loc, provVars, exceptDep>>

\* ensure_bucket (lines 25-35), for the i-th bucket of main (lines 332-333).
D_EnsureBucket(i) ==
    /\ d_pc = "bucket" \o ToString(i)
    /\ LET b == TdBuckets(d_env.SUFFIX)[i]
           head == <<DCall("head_bucket", b)>>
           \* 404 for a bucket that is not there, another error answer
           \* for one that is
           headErr == <<Raising(head[1], IF b \in buckets THEN "ClientError" ELSE "NotFound")>>
           create == <<DCall("create_bucket", b)>>
           new == IF b \in buckets THEN {} ELSE {Made("bucket", b)}
       IN \/ \* head_bucket returns: the bucket is there
             /\ b \in buckets
             /\ DGoOn(head, {}, 0)
             /\ UNCHANGED buckets
          \/ \* head_bucket raises something else than ClientError
             /\ DAbort(Raised(head, 1, "Other"), {}, 1, "Other")
             /\ UNCHANGED buckets
          \/ \* head_bucket raises ClientError (404, or any other answer):
             \* create_bucket, which makes the bucket or raises
             \E ok \in BOOLEAN, e \in EscapeKinds :
               LET spurious == IF b \in buckets THEN 1 ELSE 0
               IN IF ok
                    THEN /\ DGoOn(headErr \o create, new, spurious)
                         /\ buckets' = buckets \cup {b}
                    ELSE LET ce == IF b \in buckets THEN "Conflict" ELSE e
                         IN /\ DAbort(headErr \o Raised(create, 1, ce), {},
                                      spurious + (IF b \in buckets THEN 0 ELSE 1), ce)
                            /\ UNCHANGED buckets
    /\ UNCHANGED <<d_loc, bucketItems, table, functions, mappings, topics, subs, apis,
                   integrations, routes, stages, perms, exceptDep>>

\* The ARN of the stream the provider starts when a stream is enabled: one
\* no mapping refers to yet.
NewStream == FreshId({m.stream : m \in mappings} \cup {table.stream})

\* stream_spec.get("StreamEnabled")
StreamEnabled(t) == t.stream # 0

StreamArnMissingMutNever(arn) == FALSE

\* `if not stream_arn` (line 336)
StreamArnMissing(arn) == arn = 0

\* ensure_ddb_table_with_stream (lines 38-69) and the check of its result
\* (lines 335-337).
D_EnsureTable ==
    /\ d_pc = "table"
    /\ LET describe == DCall("describe_table", TableName)
           wait == DCall("wait_table_exists", TableName)
           created == [exists |-> TRUE, stream |-> NewStream]
           \* the calls made, the index of the call that changes the table,
           \* and the table after that call
           cs == IF ~table.exists
                   THEN <<Raising(describe, "NotFound"), DCall("create_table", TableName),
                          wait, describe>>
                   ELSE IF ~StreamEnabled(table)
                   THEN <<describe, DCall("update_table", TableName), wait, describe>>
                   ELSE <<describe>>
           after == IF ~table.exists \/ ~StreamEnabled(table) THEN created ELSE table
           made == IF ~table.exists THEN {Made("table", TableName)} ELSE {}
       IN \E k \in 0 .. Len(cs), e \in EscapeKinds, lag \in BOOLEAN :
            \* the last describe_table may answer before LatestStreamArn is set
            LET arn == IF lag /\ Len(cs) > 1 THEN 0 ELSE after.stream
                done == k = 0 \/ k > 2
            IN /\ table' = IF done THEN after ELSE table
               /\ IF k # 0
                    THEN /\ ~lag
                         /\ DAbort(Raised(cs, k, e), IF done THEN made ELSE {}, 1, e)
                         /\ UNCHANGED d_loc
                    ELSE IF StreamArnMissing(arn)
                    THEN /\ DAbort(cs, made, IF after.stream # 0 THEN 1 ELSE 0,
                                   "RuntimeError: No se pudo obtener Stream ARN de DynamoDB")
                         /\ UNCHANGED d_loc
                    ELSE /\ DGoOn(cs, made, IF arn = 0 THEN 1 ELSE 0)
                         /\ d_loc' = [d_loc EXCEPT !.stream_arn = arn]
    /\ UNCHANGED <<buckets, bucketItems, functions, mappings, topics, subs, apis,
                   integrations, routes, stages, perms, exceptDep>>

LambdaStepName(pc) ==
    CASE pc = "lambda_a" -> FnA(d_env.SUFFIX)
      [] pc = "lambda_b" -> FnB(d_env.SUFFIX)
      [] pc = "lambda_c" -> FnC(d_env.SUFFIX)

UpdateCallsMutNoPoll(name) ==
    <<DCall("get_function", name), DCall("wait_lambda_ready", name),
      DCall("update_function_code", name),
      DCall("update_function_configuration", name), DCall("wait_lambda_ready", name),
      DCall("get_function", name)>>

\* The calls of the try block of ensure_lambda (lines 114-132), the last
\* one being _get_arn.
UpdateCalls(name) ==
    <<DCall("get_function", name), DCall("wait_lambda_ready", name),
      DCall("update_function_code", name), DCall("wait_lambda_ready", name),
      DCall("update_function_configuration", name), DCall("wait_lambda_ready", name),
      DCall("get_function", name)>>

\* ensure_lambda (lines 105-150) for the function of step pc (lines 354-366).
\* Each wait_lambda_ready is one entry "wait_lambda_ready" of the call log;
\* update_function_code and update_function_configuration go through
\* call_with_retries, whose own failures are what escapes here.
D_EnsureLambda ==
    /\ d_pc \in {"lambda_a", "lambda_b", "lambda_c"}
    /\ LET name == LambdaStepName(d_pc)
           get == DCall("get_function", name)
           wait == DCall("wait_lambda_ready", name)
           update == UpdateCalls(name)
           create == <<Raising(get, "NotFound"), DCall("create_function", name), wait>>
           cs == IF name \in functions THEN update ELSE create
           field == IF d_pc = "lambda_a" THEN "arn_a"
                    ELSE IF d_pc = "lambda_b" THEN "arn_b" ELSE "arn_c"
       IN \/ \E k \in 0 .. Len(cs), e \in WaitEscapeKinds :
               LET made == IF name \notin functions /\ (k = 0 \/ k > 2)
                           THEN {Made("function", name)} ELSE {}
               IN /\ (k # 0 /\ e = "TimeoutError") => cs[k].op = "wait_lambda_ready"
                  /\ functions' = functions \cup {m.name : m \in made}
                  /\ DEnd(cs, k, e, made)
                  /\ d_loc' = IF k = 0 THEN [d_loc EXCEPT ![field] = FunctionArn(name)]
                               ELSE d_loc
          \/ \* a call of the update path answers ResourceNotFoundException
             \* though the function is there: create_function, which the
             \* provider refuses for a name in use
             \E k \in 1 .. Len(update) :
               /\ name \in functions
               /\ DAbort(Raised(update, k, "NotFound")
                            \o <<Raising(DCall("create_function", name), "Conflict")>>,
                         {}, 1, "Conflict")
               /\ UNCHANGED <<functions, d_loc>>
    /\ UNCHANGED <<buckets, bucketItems, table, mappings, topics, subs, apis,
                   integrations, routes, stages, perms, exceptDep>>

\* ensure_sns_topic_and_sub (lines 274-280).  create_topic returns the topic
\* of that name when there is one; subscribe adds a subscription of the
\* address unless the topic has one.
D_EnsureTopic ==
    /\ d_pc = "topic"
    /\ LET t == TopicName(d_env.SUFFIX)
           email == d_env.NOTIFY_EMAIL \notin {Unset, ""}
           cs == <<DCall("create_topic", t)>> \o
                 (IF email THEN <<DCall("subscribe", t)>> ELSE <<>>)
           made == IF t \in topics THEN {} ELSE {Made("topic", t)}
           sub == [id |-> FreshId({x.id : x \in subs}), topic |-> t,
                   arn |-> "PendingConfirmation"]
       IN \E k \in 0 .. Len(cs), e \in EscapeKinds :
            /\ topics' = IF k = 1 THEN topics ELSE topics \cup {t}
            /\ subs' = IF k = 0 /\ email /\ ~\E x \in subs : x.topic = t
                       THEN subs \cup {sub} ELSE subs
            /\ DEnd(cs, k, e, IF k = 1 THEN {} ELSE made)
            /\ d_loc' = IF k = 0 THEN [d_loc EXCEPT !.topic_arn = "arn:" \o t] ELSE d_loc
    /\ UNCHANGED <<buckets, bucketItems, table, functions, mappings, apis,
                   integrations, routes, stages, perms, exceptDep>>

\* The try/except around add_permission (lines 155-166 and 229-240): a
\* statement the policy already has is answered ResourceConflictException,
\* which is passed over; any other exception leaves the function.
\* `fails` is whether the call raises such another exception.
AddPermission(fn, sid, fails) ==
    IF fails \/ [fn |-> fn, sid |-> sid] \in perms THEN perms
    ELSE perms \cup {[fn |-> fn, sid |-> sid]}

\* The add_permission call as the provider answers it when it does not
\* fail otherwise.
PermissionCall(fn, sid) ==
    IF [fn |-> fn, sid |-> sid] \in perms
    THEN Raising(DCall("add_permission", fn), "Conflict") ELSE DCall("add_permission", fn)

\* ensure_s3_trigger (lines 153-178)
D_EnsureS3Trigger ==
    /\ d_pc = "s3_trigger"
    /\ LET b == UploadsBucket(d_env.SUFFIX)
           fn == FnA(d_env.SUFFIX)
           cs == <<PermissionCall(fn, "s3invoke-" \o b),
                   DCall("put_bucket_notification_configuration", b)>>
       IN \E k \in 0 .. 2, e \in EscapeKinds :
            /\ perms' = AddPermission(fn, "s3invoke-" \o b, k = 1)
            /\ DEnd(cs, k, e, {})
    /\ UNCHANGED <<d_loc, buckets, bucketItems, table, functions, mappings, topics, subs,
                   apis, integrations, routes, stages, exceptDep>>

FirstIdMutNone(ids) == 0

\* The first item of a listing that satisfies the search of the loop; 0
\* when the loop ends without one.  The provider lists in ascending order
\* of identifier.
FirstId(ids) == IF ids = {} THEN 0 ELSE Ascending(ids)[1]

\* Lines 182-197: the API of that name, or a new one.
D_EnsureApi ==
    /\ d_pc = "api"
    /\ LET n == ApiName(d_env.SUFFIX)
           found == FirstId({a.id : a \in {x \in apis : x.name = n}})
           id == IF found # 0 THEN found ELSE FreshId({a.id : a \in apis})
           cs == <<DCall("get_apis", "")>> \o
                 (IF found # 0 THEN <<>> ELSE <<DCall("create_api", n)>>)
           made == IF found # 0 THEN {} ELSE {Made("api", ToString(id))}
       IN \E k \in 0 .. Len(cs), e \in EscapeKinds :
            /\ apis' = IF k = 0 /\ found = 0 THEN apis \cup {[id |-> id, name |-> n]} ELSE apis
            /\ DEnd(cs, k, e, IF k = 0 THEN made ELSE {})
            /\ d_loc' = IF k = 0 THEN [d_loc EXCEPT !.api_id = id] ELSE d_loc
    /\ UNCHANGED <<buckets, bucketItems, table, functions, mappings, topics, subs,
                   integrations, routes, stages, perms, exceptDep>>

\* Lines 199-212: the integration of the API with the function, or a new one.
D_EnsureIntegration ==
    /\ d_pc = "integration"
    /\ LET api == d_loc.api_id
           uri == d_loc.arn_b
           found == FirstId({x.id : x \in {y \in integrations : y.api = api /\ y.uri = uri}})
           id == IF found # 0 THEN found ELSE FreshId({x.id : x \in integrations})
           cs == <<DCall("get_integrations", ToString(api))>> \o
                 (IF found # 0 THEN <<>> ELSE <<DCall("create_integration", ToString(api))>>)
           made == IF found # 0 THEN {} ELSE {Made("integration", ToString(id))}
       IN \E k \in 0 .. Len(cs), e \in EscapeKinds :
            /\ integrations' = IF k = 0 /\ found = 0
                               THEN integrations \cup {[id |-> id, api |-> api, uri |-> uri]}
                               ELSE integrations
            /\ DEnd(cs, k, e, IF k = 0 THEN made ELSE {})
            /\ d_loc' = IF k = 0 THEN [d_loc EXCEPT !.integration_id = id] ELSE d_loc
    /\ UNCHANGED <<buckets, bucketItems, table, functions, mappings, topics, subs,
                   apis, routes, stages, perms, exceptDep>>

RouteListedMutNever(items, route_key) == FALSE

\* The loop of ensure_route (lines 215-217) over the listed routes.
RouteListed(items, route_key) == \E r \in items : r.key = route_key

RouteKeyOf(pc) == IF pc = "route1" THEN "GET /items" ELSE "GET /items/{store}"

\* ensure_route (lines 214-221), called for the two keys (lines 220-221).
\* create_route registers what it is asked to.
D_EnsureRoute ==
    /\ d_pc \in {"route1", "route2"}
    /\ LET api == d_loc.api_id
           key == RouteKeyOf(d_pc)
           listed == RouteListed({r \in routes : r.api = api}, key)
           id == FreshId({r.id : r \in routes})
           cs == <<DCall("get_routes", ToString(api))>> \o
                 (IF listed THEN <<>> ELSE <<DCall("create_route", key)>>)
           made == IF listed THEN {} ELSE {Made("route", ToString(id))}
       IN \E k \in 0 .. Len(cs), e \in EscapeKinds :
            /\ routes' = IF k = 0 /\ ~listed
                         THEN routes \cup {[id |-> id, api |-> api, key |-> key]}
                         ELSE routes
            /\ DEnd(cs, k, e, IF k = 0 THEN made ELSE {})
    /\ UNCHANGED <<d_loc, buckets, bucketItems, table, functions, mappings, topics, subs,
                   apis, integrations, stages, perms, exceptDep>>

\* Lines 223-227: the $default stage.  Any ClientError of get_stage or
\* update_stage leads to create_stage, which the provider refuses when the
\* stage is there.
D_EnsureStage ==
    /\ d_pc = "stage"
    /\ LET api == d_loc.api_id
           get == DCall("get_stage", ToString(api))
           update == DCall("update_stage", ToString(api))
           create == DCall("create_stage", ToString(api))
           has == api \in stages
           missing == Raising(get, "NotFound")
           refused == Raising(create, "Conflict")
       IN \/ /\ has
             /\ DGoOn(<<get, update>>, {}, 0)
             /\ UNCHANGED stages
          \/ /\ ~has
             /\ DGoOn(<<missing, create>>, {}, 0)
             /\ stages' = stages \cup {api}
          \/ /\ ~has
             /\ \E e \in EscapeKinds : DAbort(<<missing, Raising(create, e)>>, {}, 1, e)
             /\ UNCHANGED stages
          \/ \* another error answer of get_stage or update_stage
             /\ has
             /\ \E cs \in {<<Raising(get, "ClientError"), refused>>,
                            <<get, Raising(update, "ClientError"), refused>>} :
                  DAbort(cs, {}, 1, "Conflict")
             /\ UNCHANGED stages
          \/ /\ \E cs \in {<<Raising(get, "Other")>>} \cup
                            (IF has THEN {<<get, Raising(update, "Other")>>} ELSE {}) :
                  DAbort(cs, {}, 1, "Other")
             /\ UNCHANGED stages
    /\ UNCHANGED <<d_loc, buckets, bucketItems, table, functions, mappings, topics, subs,
                   apis, integrations, routes, perms, exceptDep>>

\* Lines 229-240: the permission of the API to invoke the function.
D_EnsureApiPermission ==
    /\ d_pc = "api_permission"
    /\ LET fn == FnB(d_env.SUFFIX)
       IN \E k \in 0 .. 1, e \in EscapeKinds :
            /\ perms' = AddPermission(fn, "apigw-" \o ToString(d_loc.api_id), k = 1)
            /\ DEnd(<<PermissionCall(fn, "apigw-" \o ToString(d_loc.api_id))>>, k, e, {})
    /\ UNCHANGED <<d_loc, buckets, bucketItems, table, functions, mappings, topics, subs,
                   apis, integrations, routes, stages, exceptDep>>

\* Lines 242-243: the endpoint of the API.
D_GetEndpoint ==
    /\ d_pc = "api_endpoint"
    /\ \E k \in 0 .. 1, e \in EscapeKinds :
         DEnd(<<DCall("get_api", ToString(d_loc.api_id))>>, k, e, {})
    /\ UNCHANGED <<d_loc, provVars, exceptDep>>

MappingListedMutNever(items, stream_arn) == FALSE

\* The loop of ensure_event_source_mapping (lines 285-287) over the mappings
\* listed for the function.
MappingListed(items, stream_arn) == \E m \in items : m.stream = stream_arn

\* ensure_event_source_mapping (lines 283-297), called with the notifier and
\* the stream of the table (line 372).  create_event_source_mapping
\* registers what it is asked to.
D_EnsureMapping ==
    /\ d_pc = "mapping"
    /\ LET fn == FnC(d_env.SUFFIX)
           stream_arn == d_loc.stream_arn
           items == {m \in mappings : m.fn = fn}
           listed == MappingListed(items, stream_arn)
           found == FirstId({m.uuid : m \in {x \in items : x.stream = stream_arn}})
           uuid == IF listed THEN found ELSE FreshId({m.uuid : m \in mappings})
           cs == <<DCall("list_event_source_mappings", fn)>> \o
                 (IF listed THEN <<>> ELSE <<DCall("create_event_source_mapping", fn)>>)
           made == IF listed THEN {} ELSE {Made("mapping", ToString(uuid))}
       IN \E k \in 0 .. Len(cs), e \in EscapeKinds :
            /\ mappings' = IF k = 0 /\ ~listed
                           THEN mappings \cup {[uuid |-> uuid, fn |-> fn, stream |-> stream_arn]}
                           ELSE mappings
            /\ DEnd(cs, k, e, IF k = 0 THEN made ELSE {})
            /\ d_loc' = IF k = 0 THEN [d_loc EXCEPT !.mapping_uuid = uuid] ELSE d_loc
    /\ UNCHANGED <<buckets, bucketItems, table, functions, topics, subs,
                   apis, integrations, routes, stages, perms, exceptDep>>

\* upload_dir (lines 246-263) of the web folder, which holds index.html.
D_UploadWeb ==
    /\ d_pc = "upload"
    /\ LET b == WebBucket(d_env.SUFFIX)
       IN \/ /\ DAbort(<<>>, {}, 1, "RuntimeError: No existe la carpeta web")
             /\ UNCHANGED bucketItems
          \/ /\ DGoOn(<<DCall("put_object", b)>>, {}, 0)
             /\ bucketItems' = [bucketItems EXCEPT ![b] = @ \cup {"object"}]
          \/ /\ \E e \in EscapeKinds :
                  DAbort(<<Raising(DCall("put_object", b), e)>>, {}, 1, e)
             /\ UNCHANGED bucketItems
    /\ UNCHANGED <<d_loc, buckets, table, functions, mappings, topics, subs,
                   apis, integrations, routes, stages, perms, exceptDep>>

\* Lines 376-398: presign signs locally, and the summary is printed.
D_Done ==
    /\ d_pc = "done"
    /\ d_pc' = "end"
    /\ d_exit' = "ok"
    /\ UNCHANGED <<d_env, d_run, d_loc, d_calls, d_created, d_faults, d_prev,
                   provVars, exceptDep>>

\* The provisioner is run again with the same settings.
D_Rerun ==
    /\ d_pc \in {"end", "aborted"}
    /\ d_run < MaxDeployRuns
    /\ d_run' = d_run + 1
    /\ d_prev' = [ok |-> d_exit = "ok", counts |-> Counts, created |-> d_created]
    /\ d_pc' = DeploySteps[1]
    /\ d_loc' = NoLocals
    /\ d_calls' = <<>>
    /\ d_created' = {}
    /\ d_exit' = "running"
    /\ UNCHANGED <<d_env, d_faults, provVars, exceptDep>>


Emails == {Unset, "ops@example.com"}
RoleArns == {Unset, "", "arn:role"}

\* The settings of a run: all of them, or the suffix or the role missing.
DeployEnvs ==
    [SUFFIX : Suffixes \cup {Unset}, LAMBDA_ROLE_ARN : RoleArns, NOTIFY_EMAIL : Emails]

DeployParts == TdCategories \cup {"stream"}

\* The provider states a first run may find: any part of the deployment of
\* the suffix, in either variant, the table with or without its stream.
\* A run that lacks a setting is started on the whole deployment and on
\* none of it.
InitDeploy ==
    /\ \E s \in Suffixes, v \in 1 .. 2, absent \in SUBSET DeployParts, env \in DeployEnvs :
         /\ (env.SUFFIX = Unset \/ env.LAMBDA_ROLE_ARN # "arn:role")
               => (v = 1 /\ absent \in {{}, TdCategories})
         /\ "stream" \in absent => "table" \notin absent
         /\ Deployed(s, v, absent)
         /\ d_env = env
    /\ DStart
    /\ d_run = 1
    /\ d_faults = 0
    /\ d_prev = NoPrev
    /\ IdleRetry
    /\ IdleWait
    /\ IdleTeardown
    /\ IdleHandlers

NextDeploy ==
    \/ D_Config
    \/ D_CallerIdentity
    \/ \E i \in 1 .. 2 : D_EnsureBucket(i)
    \/ D_EnsureTable
    \/ D_EnsureLambda
    \/ D_EnsureTopic
    \/ D_EnsureS3Trigger
    \/ D_EnsureApi
    \/ D_EnsureIntegration
    \/ D_EnsureRoute
    \/ D_EnsureStage
    \/ D_EnsureApiPermission
    \/ D_GetEndpoint
    \/ D_EnsureMapping
    \/ D_UploadWeb
    \/ D_Done
    \/ D_Rerun

SpecDeploy == InitDeploy /\ [][NextDeploy]_vars

-----------------------------------------------------------------------------
(***************************************************************************)
(* Two deployments side by side                                            *)
(***************************************************************************)

\* The deployment of OtherSuffix as a completed provisioning run leaves it,
\* with identifiers of its own.  Its table is the table named DDB_TABLE:
\* neither script puts the suffix into that name (deploy.py line 305,
\* teardown.py line 44).
OtherResources ==
    LET o == OtherSuffix
        api == FullApi(MaxApis + 1, o)
    IN [apis |-> {api.api},
        integrations |-> api.integrations,
        routes |-> api.routes,
        stages |-> {api.api.id},
        functions |-> {FnA(o), FnB(o), FnC(o)},
        perms |-> {},
        mappings |-> {[uuid |-> 4, fn |-> FnC(o), stream |-> 1]},
        topics |-> {TopicName(o)},
        subs |-> {[id |-> 3, topic |-> TopicName(o), arn |-> "arn:sub:" \o o]},
        table |-> [exists |-> TRUE, stream |-> 1],
        buckets |-> {UploadsBucket(o), WebBucket(o)},
        items |-> [b \in {UploadsBucket(o), WebBucket(o)} |-> {"object"}]]

\* The resources of a deployment next to those of the other one, which
\* keeps the table and its stream.
Both(r, other) ==
    [apis |-> r.apis \cup other.apis,
     integrations |-> r.integrations \cup other.integrations,
     routes |-> r.routes \cup other.routes,
     stages |-> r.stages \cup other.stages,
     functions |-> r.functions \cup other.functions,
     perms |-> r.perms \cup other.perms,
     mappings |-> r.mappings \cup other.mappings,
     topics |-> r.topics \cup other.topics,
     subs |-> r.subs \cup other.subs,
     table |-> other.table,
     buckets |-> r.buckets \cup other.buckets,
     items |-> r.items @@ other.items]

IsolationParts == TdCategories \ {"table"}

\* Either script is started for a suffix while the other deployment exists.
InitIsolation ==
    /\ \E s \in Suffixes, v \in 1 .. 2, absent \in SUBSET IsolationParts,
          tear \in BOOLEAN, email \in Emails :
         /\ Cardinality(absent) <= 1 \/ absent = IsolationParts
         /\ Holds(Both(Resources(s, v, absent), OtherResources))
         /\ IF tear
              THEN /\ TdStart(s) /\ td_run = 1 /\ td_faults = 0
                   /\ IdleDeploy
              ELSE /\ DStart /\ d_run = 1 /\ d_faults = 0 /\ d_prev = NoPrev
                   /\ d_env = [SUFFIX |-> s, LAMBDA_ROLE_ARN |-> "arn:role",
                               NOTIFY_EMAIL |-> email]
                   /\ IdleTeardown
    /\ IdleRetry
    /\ IdleWait
    /\ IdleHandlers

NextIsolation == NextTeardown \/ NextDeploy

SpecIsolation == InitIsolation /\ [][NextIsolation]_vars

-----------------------------------------------------------------------------
(***************************************************************************)
(* The Lambda handlers                                                     *)
(***************************************************************************)

\* Texts that are parsed are sequences of one-character strings.
DigitValue ==
    ("0" :> 0) @@ ("1" :> 1) @@ ("2" :> 2) @@ ("3" :> 3) @@ ("4" :> 4) @@
    ("5" :> 5) @@ ("6" :> 6) @@ ("7" :> 7) @@ ("8" :> 8) @@ ("9" :> 9)

RECURSIVE DigitsValue(_)
DigitsValue(ds) ==
    IF ds = <<>> THEN 0
    ELSE 10 * DigitsValue(SubSeq(ds, 1, Len(ds) - 1)) + DigitValue[ds[Len(ds)]]

\* text.strip()
Strip(text) ==
    LET idx == {i \in 1 .. Len(text) : text[i] # " "}
    IN IF idx = {} THEN <<>>
       ELSE SubSeq(text, CHOOSE i \in idx : \A j \in idx : i <= j,
                         CHOOSE i \in idx : \A j \in idx : i >= j)

IntOfMutLeadingDigits(text) ==
    LET t == Strip(text)
        n == IF \E i \in 1 .. Len(t) : t[i] \notin DOMAIN DigitValue
             THEN (CHOOSE i \in 1 .. Len(t) :
                      t[i] \notin DOMAIN DigitValue
                      /\ \A j \in 1 .. (i - 1) : t[j] \in DOMAIN DigitValue) - 1
             ELSE Len(t)
    IN [ok |-> n >= 1, val |-> DigitsValue(SubSeq(t, 1, n))]

\* int(text): surrounding blanks, an optional sign, decimal digits; ok is
\* FALSE where int raises ValueError.
IntOf(text) ==
    LET t == Strip(text)
        signed == Len(t) >= 1 /\ t[1] \in {"-", "+"}
        ds == IF signed THEN Tail(t) ELSE t
        ok == Len(ds) >= 1 /\ \A i \in 1 .. Len(ds) : ds[i] \in DOMAIN DigitValue
        mag == IF ok THEN DigitsValue(ds) ELSE 0
    IN [ok |-> ok, val |-> IF signed /\ t[1] = "-" THEN 0 - mag ELSE mag]

\* ---- notify_low_stock

\* Largest number of records in a batch.
MaxBatch == 2

\* A stream record: eventName and dynamodb.NewImage (present or not) with
\* its attributes Store.S, Item.S and Count.N; Unset and the empty text
\* stand for an attribute the image does not have.
StreamRecords ==
    [eventName : {"INSERT", "MODIFY", "REMOVE"}, present : {TRUE},
     Store : {Unset, "Berlin"}, Item : {Unset, "apple"},
     Count : {<<>>, <<"1">>, <<"2">>, <<"3">>, <<"-", "1">>, <<"1", ".", "5">>}]
    \cup [eventName : {"INSERT", "MODIFY", "REMOVE"}, present : {FALSE},
          Store : {Unset}, Item : {Unset}, Count : {<<>>}]

LowStockMutAnyEvent(r, threshold) ==
    /\ r.present
    /\ r.Store # Unset /\ r.Item # Unset /\ r.Count # <<>>
    /\ IntOf(r.Count).ok
    /\ IntOf(r.Count).val <= threshold

\* The conditions under which the loop body reaches sns.publish (lines
\* 16-35).
LowStock(r, threshold) ==
    /\ r.eventName \in {"INSERT", "MODIFY"}
    /\ r.present
    /\ r.Store # Unset /\ r.Item # Unset /\ r.Count # <<>>
    /\ IntOf(r.Count).ok
    /\ IntOf(r.Count).val <= threshold

\* lambda_handler of notify_low_stock (lines 11-50); the h_in.fail-th
\* sns.publish raises (0: none does).
NotifyHandler ==
    /\ h_pc = "start"
    /\ h_in.handler = "notify"
    /\ LET low == SelectSeq(h_in.event, LAMBDA r : LowStock(r, h_in.threshold))
           msgs == [i \in 1 .. Len(low) |->
                      [type |-> "LOW_STOCK", store |-> low[i].Store, item |-> low[i].Item,
                       count |-> IntOf(low[i].Count).val, threshold |-> h_in.threshold]]
       IN IF h_in.fail = 0
            THEN /\ h_pub' = msgs
                 /\ h_ret' = [ok |-> TRUE, alerts_sent |-> Len(msgs)]
                 /\ h_pc' = "returned"
            ELSE /\ h_pub' = SubSeq(msgs, 1, h_in.fail - 1)
                 /\ h_pc' = "raised"
                 /\ UNCHANGED h_ret
    /\ UNCHANGED <<h_in, h_items, h_log, exceptH>>

\* An invocation of the notifier with a batch of at most MaxBatch records.
InitNotify ==
    /\ h_pc = "start"
    /\ \E n \in 0 .. MaxBatch : \E ev \in [1 .. n -> StreamRecords] :
       \E th \in {1, 2}, fail \in 0 .. n :
         /\ fail <= Len(SelectSeq(ev, LAMBDA r : LowStock(r, th)))
         /\ h_in = [handler |-> "notify", event |-> ev, threshold |-> th, fail |-> fail]
    /\ h_ret = [ok |-> FALSE] /\ h_pub = <<>> /\ h_items = {} /\ h_log = <<>>

\* ---- load_inventory

\* Largest number of data rows in a CSV file.
MaxRows == 2

\* csv.DictReader: the cells of a data row under the names of the header
\* row (under a repeated name, the last cell).
DictReader(header, cells) ==
    [name \in {header[i] : i \in 1 .. Len(header)} |->
        cells[CHOOSE i \in 1 .. Len(header) :
                 header[i] = name /\ \A j \in (i + 1) .. Len(header) : header[j] # name]]

\* (row.get(lower) or row.get(cap) or default).strip()
Column(row, lower, cap, default) ==
    Strip(IF lower \in DOMAIN row /\ row[lower] # <<>> THEN row[lower]
          ELSE IF cap \in DOMAIN row /\ row[cap] # <<>> THEN row[cap]
          ELSE default)

\* The rows the readers of the files yield, file after file.
RECURSIVE RowsOf(_)
RowsOf(files) ==
    IF files = <<>> THEN <<>>
    ELSE [j \in 1 .. Len(files[1].rows) |-> DictReader(files[1].header, files[1].rows[j])]
         \o RowsOf(Tail(files))

\* The row loop (lines 29-43) over rows, on a table holding items: the
\* table afterwards and the number of put_item calls. A put replaces the
\* item of the same (Store, Item).
RECURSIVE Ingest(_, _)
Ingest(items, rows) ==
    IF rows = <<>> THEN [items |-> items, written |-> 0]
    ELSE LET store == Column(rows[1], "store", "Store", <<>>)
             item == Column(rows[1], "item", "Item", <<>>)
             count_raw == Column(rows[1], "count", "Count", <<"0">>)
             count == IF IntOf(count_raw).ok THEN IntOf(count_raw).val ELSE 0
             put == {x \in items : ~(x.Store = store /\ x.Item = item)}
                    \cup {[Store |-> store, Item |-> item, Count |-> count]}
         IN IF store = <<>> \/ item = <<>>
              THEN Ingest(items, Tail(rows))
              ELSE LET rest == Ingest(put, Tail(rows))
                   IN [items |-> rest.items, written |-> rest.written + 1]

\* lambda_handler of load_inventory (lines 13-45); s3.get_object raises
\* for the h_in.fail-th record (0: for none). The batch writer of each
\* earlier file has flushed by then.
IngestHandler ==
    /\ h_pc = "start"
    /\ h_in.handler = "ingest"
    /\ IF h_in.event = <<>>
         THEN /\ h_ret' = [ok |-> TRUE, msg |-> "no records"]
              /\ h_pc' = "returned"
              /\ UNCHANGED h_items
         ELSE LET read == IF h_in.fail = 0 THEN h_in.event
                          ELSE SubSeq(h_in.event, 1, h_in.fail - 1)
                  done == Ingest(h_items, RowsOf(read))
              IN /\ h_items' = done.items
                 /\ IF h_in.fail = 0
                      THEN /\ h_ret' = [ok |-> TRUE, written |-> done.written]
                           /\ h_pc' = "returned"
                      ELSE /\ h_pc' = "raised"
                           /\ UNCHANGED h_ret
    /\ UNCHANGED <<h_in, h_pub, h_log, exceptH>>

\* The CSV files an upload holds: a header row and at most MaxRows data
\* rows, each cell a text.
CsvFiles ==
    LET stores == {<<>>, <<" ">>, <<"B">>, <<" ", "B">>}
        items == {<<>>, <<"a">>}
        counts == {<<>>, <<"7">>, <<" ", "7">>, <<"7", "x">>, <<"-", "1">>}
        Files(header, rows) ==
            UNION {[header : {header}, rows : [1 .. n -> rows]] : n \in 0 .. MaxRows}
    IN Files(<<"store", "item", "count">>, stores \X items \X counts)
       \cup Files(<<"Store", "Item", "Count">>, stores \X {<<"a">>} \X counts)
       \cup Files(<<"store", "Store", "item", "Count">>,
                  {<<>>, <<"B">>} \X {<<>>, <<"C">>} \X {<<"a">>} \X {<<"7">>})
       \cup Files(<<"store", "item">>, {<<"B">>} \X items)

\* An invocation of the loader with no record, with one file, or with two
\* one-row files, on a table that is empty or holds one item.
InitIngest ==
    /\ h_pc = "start"
    /\ h_items \in {{}, {[Store |-> <<"B">>, Item |-> <<"a">>, Count |-> 9]}}
    /\ LET short == {f \in CsvFiles : /\ Len(f.rows) = 1
                                      /\ f.header = <<"store", "item", "count">>
                                      /\ f.rows[1][1] \in {<<>>, <<"B">>}}
       IN \E n \in 0 .. MaxBatch :
          \E ev \in [1 .. n -> IF n > 1 THEN short ELSE CsvFiles] : \E fail \in 0 .. n :
            h_in = [handler |-> "ingest", event |-> ev, fail |-> fail, items |-> h_items]
    /\ h_ret = [ok |-> FALSE] /\ h_pub = <<>> /\ h_log = <<>>

\* ---- get_inventory_api

\* Largest number of items the table returns in one query or scan call
\* (the provider ends a page at 1 MB of data).
PageRows == 2

\* lambda_handler of get_inventory_api (lines 36-53). The empty text is a
\* store path parameter that is absent or empty. One query or scan call is
\* made and its first page alone is used; which items a page holds is the
\* provider's choice. The body lists each item under the names store, item
\* and count.
QueryHandler ==
    /\ h_pc = "start"
    /\ h_in.handler = "query"
    /\ IF h_in.method = "OPTIONS"
         THEN /\ h_ret' = [statusCode |-> 200, body |-> [ok |-> TRUE]]
              /\ UNCHANGED h_log
         ELSE LET found == IF h_in.store # <<>>
                           THEN {i \in h_items : i.Store = h_in.store}
                           ELSE h_items
              IN \E page \in SUBSET found :
                   /\ \/ page = found /\ Cardinality(found) <= PageRows
                      \/ Cardinality(page) = PageRows /\ Cardinality(found) > PageRows
                   /\ h_ret' = [statusCode |-> 200,
                                body |-> {[store |-> i.Store, item |-> i.Item,
                                           count |-> i.Count] : i \in page}]
                   /\ h_log' = <<IF h_in.store # <<>> THEN "query" ELSE "scan">>
    /\ h_pc' = "returned"
    /\ UNCHANGED <<h_in, h_pub, h_items, exceptH>>

\* A request to the query handler on a table of at most PageRows + 1 items.
InitQuery ==
    /\ h_pc = "start"
    /\ h_items \in {t \in SUBSET [Store : {<<"B">>, <<"C">>}, Item : {<<"a">>, <<"b">>},
                                 Count : {3}] : Cardinality(t) <= PageRows + 1}
    /\ h_in \in [handler : {"query"}, method : {"GET", "OPTIONS"},
               store : {<<>>, <<"B">>, <<"D">>}]
    /\ h_ret = [ok |-> FALSE] /\ h_pub = <<>> /\ h_log = <<>>

InitHandlers ==
    /\ InitNotify \/ InitIngest \/ InitQuery
    /\ IdleRetry /\ IdleWait /\ IdleProvider /\ IdleTeardown /\ IdleDeploy

NextHandlers ==
    \/ NotifyHandler
    \/ IngestHandler
    \/ QueryHandler

SpecHandlers == InitHandlers /\ [][NextHandlers]_vars

\* call_with_retries alone, on an operation that may fail in any way at
\* every invocation.
NextRetry == CR_Invoke \/ CR_Sleep \/ CR_Exhausted
InitSpecRetry ==
    InitRetry /\ IdleWait /\ IdleProvider /\ IdleTeardown /\ IdleDeploy /\ IdleHandlers
SpecRetry == InitSpecRetry /\ [][NextRetry]_vars
\* The interpreter keeps running the function until it returns or raises.
SpecRetryFair == SpecRetry /\ WF_vars(NextRetry)

\* wait_lambda_ready alone, on a function whose status the provider decides
\* at every query.
NextWait == W_Poll \/ W_QueryFails \/ W_Sleep
InitSpecWait ==
    InitWait /\ IdleRetry /\ IdleProvider /\ IdleTeardown /\ IdleDeploy /\ IdleHandlers
SpecWait == InitSpecWait /\ [][NextWait]_vars
SpecWaitFair == SpecWait /\ WF_vars(NextWait)

-----------------------------------------------------------------------------
(***************************************************************************)
(* Properties of call_with_retries                                         *)
(***************************************************************************)

\* A failure of the transient-conflict class, as the specification names it.
IsTransientConflict(o) == o.cls = "ClientError" /\ o.code \in TransientCodes

\* What "propagated immediately" means for the k-th invocation's failure: it
\* is the last invocation, the caller got that very exception, and the only
\* waits are those of the k-1 earlier attempts.
PropagatedImmediately(k) ==
    /\ k = Len(cr_hist)
    /\ cr_pc = "raised"
    /\ cr_out = cr_hist[k]
    /\ cr_slept = SleepS * (k - 1)

\* C2 (as stated): every failure of the operation that is not a transient
\* conflict is propagated immediately: no further invocation, no backoff
\* wait, and the caller sees that same failure.
C2_AnyOtherFailurePropagatesImmediately ==
    \A k \in 1 .. Len(cr_hist) :
        (cr_hist[k].cls # "ok" /\ ~IsTransientConflict(cr_hist[k]))
            => PropagatedImmediately(k)

\* C2 (amended): every provider error (ClientError) whose code is not a
\* transient-conflict code is propagated immediately; an exception that is
\* not a ClientError is handled like a transient conflict (wait, retry).
C2_OtherClientErrorPropagatesImmediately ==
    /\ \A k \in 1 .. Len(cr_hist) :
        (cr_hist[k].cls = "ClientError" /\ cr_hist[k].code \notin TransientCodes)
            => PropagatedImmediately(k)
    /\ \A k \in 1 .. Len(cr_hist) :
        (cr_hist[k].cls = "Exception" /\ cr_pc = "raised")
            => (Len(cr_hist) > k \/ (k = Retries /\ cr_slept = SleepS * Retries))

\* A non-transient provider error arrives on a retry and is raised.
C2_Witness ==
    /\ cr_pc = "raised"
    /\ Len(cr_hist) >= 2
    /\ cr_hist[Len(cr_hist)].cls = "ClientError"
    /\ cr_hist[Len(cr_hist)].code = "AccessDeniedException"
    /\ cr_out = cr_hist[Len(cr_hist)]

C3_Safety ==
    \* never more than the bounded count of invocations
    /\ Len(cr_hist) <= Retries
    \* every attempt a transient conflict: 8 attempts, a 2 s wait after each,
    \* and the last failure is what the caller gets
    /\ (cr_pc = "raised" /\ \A k \in 1 .. Len(cr_hist) : IsTransientConflict(cr_hist[k]))
         => /\ Len(cr_hist) = Retries
            /\ cr_slept = SleepS * Retries
            /\ cr_out = cr_hist[Retries]
    \* a successful attempt is the last one, and its result is returned
    /\ \A k \in 1 .. Len(cr_hist) :
         cr_hist[k].cls = "ok"
            => k = Len(cr_hist) /\ cr_pc = "returned" /\ cr_out = cr_hist[k]
    /\ cr_pc = "returned" => (Len(cr_hist) >= 1 /\ cr_hist[Len(cr_hist)].cls = "ok")

\* C3: call_with_retries always terminates; with a transient conflict at
\* every attempt it makes 8 attempts 2 s apart and raises the last failure;
\* a successful attempt ends it with that attempt's result.
C3_CallWithRetriesTerminates == []C3_Safety /\ <>CrDone

\* Eight transient conflicts in a row, and the eighth is raised.
C3_Witness ==
    /\ cr_pc = "raised"
    /\ Len(cr_hist) = Retries
    /\ \A k \in 1 .. Len(cr_hist) : IsTransientConflict(cr_hist[k])
    /\ cr_out = cr_hist[Retries]

(***************************************************************************)
(* Properties of wait_lambda_ready                                         *)
(***************************************************************************)

\* The ready state, as the specification names it.
ReadyState(o) == o.state = "Active" /\ o.last_update \in {"Successful", "Unknown"}

C4_Safety ==
    /\ w_pc = "raised" =>
         /\ ~ReadyState(w_obs)
         /\ w_err.cls = "TimeoutError"
         /\ w_err.state = w_obs.state
         /\ w_err.last_update = w_obs.last_update
         \* after the timeout, never earlier
         /\ w_now - w_t0 > w_timeout
         \* at most one polling interval and one status query late
         /\ w_now - w_t0 <= w_timeout + PollIntervalS + w_qdur
    \* it returns only on a poll that saw the ready state
    /\ w_pc = "returned" => ReadyState(w_obs)

\* C4: polling a function that never becomes ready (every status query
\* answering) ends in a TimeoutError carrying the last observed State and
\* LastUpdateStatus, raised after timeout_s has elapsed and at most one
\* polling interval plus one status query later.
C4_TimeoutAfterConfiguredDuration ==
    /\ []C4_Safety
    /\ ([](w_pc # "error" /\ (w_obs # NoObs => ~ReadyState(w_obs)))
          => <>(w_pc = "raised"))

\* The default timeout expires after many polls of a pending function.
C4_Witness ==
    /\ w_pc = "raised"
    /\ w_timeout = DefaultTimeoutS
    /\ w_polls > 10
    /\ w_err.state = "Pending"
    /\ w_now - w_t0 = w_timeout + PollIntervalS + w_qdur

(***************************************************************************)
(* Properties of teardown.main                                             *)
(***************************************************************************)

Issued(op, tgt) == \E j \in 1 .. Len(td_calls) : td_calls[j].op = op /\ td_calls[j].tgt = tgt

\* Every category of the sequence had its deletion attempted in this run:
\* the first provider call of each block, and of each pass of the two loops,
\* was issued, and so were delete_table and both delete_bucket calls.
EveryCategoryAttempted ==
    /\ Issued("get_apis", "")
    /\ \A fn \in {FnA(td_suffix), FnB(td_suffix), FnC(td_suffix)} :
         Issued("list_event_source_mappings", fn)
    /\ Issued("list_topics", "")
    /\ Issued("delete_table", TableName)
    /\ \A b \in {UploadsBucket(td_suffix), WebBucket(td_suffix)} :
         Issued("list_object_versions", b) /\ Issued("delete_bucket", b)

ErrorLines == {l \in td_printed : l.text \in {"API delete error", "SNS delete error"}}

Completed == td_pc = "end" /\ td_exit = "success" /\ Line("== DONE ==", 0) \in td_printed

\* The category each operation belongs to.
CatOf(op) ==
    CASE op \in {"get_apis", "delete_api"} -> CatApi
      [] op \in {"list_event_source_mappings", "delete_event_source_mapping"} -> CatMapping
      [] op = "delete_function" -> CatFunction
      [] op \in {"list_topics", "list_subscriptions_by_topic", "unsubscribe", "delete_topic"}
           -> CatTopic
      [] op = "delete_table" -> CatTable
      [] op \in {"empty_bucket", "delete_bucket"} -> CatBucket

PrintedOps == {"get_apis", "delete_api", "list_topics", "list_subscriptions_by_topic",
               "delete_topic"}

Deletions == SelectSeq(td_calls, LAMBDA c : c.del)

\* C6 (as stated): deletions are attempted category by category: routing
\* layer, stream bindings, functions, topic, table, buckets.
C6_CategoryOrder ==
    \A i, j \in 1 .. Len(Deletions) : i < j => Deletions[i].cat <= Deletions[j].cat

\* Position of a deletion in the order the code follows: the API, then for
\* each function in turn its mappings and then the function, then the topic
\* (its subscriptions first), the table, and each bucket in turn.
FnRank(fn) ==
    IF fn = FnA(td_suffix) THEN 0 ELSE IF fn = FnB(td_suffix) THEN 1 ELSE 2
CodeRank(c) ==
    CASE c.cat = CatApi -> 10
      [] c.cat = CatMapping -> 20 + 2 * FnRank(c.tgt)
      [] c.cat = CatFunction -> 21 + 2 * FnRank(c.tgt)
      [] c.cat = CatTopic -> IF c.op = "unsubscribe" THEN 30 ELSE 31
      [] c.cat = CatTable -> 40
      [] c.cat = CatBucket ->
           (IF c.tgt = UploadsBucket(td_suffix) THEN 50 ELSE 52)
           + (IF c.op = "delete_bucket" THEN 1 ELSE 0)

\* C6 (amended): deletions are attempted in the order routing layer, then
\* function by function (load_inventory, get_inventory_api,
\* notify_low_stock) that function's stream bindings followed by the
\* function itself, then the topic, then the table, then the buckets; so a
\* function is deleted before the bindings of the functions after it.
C6_PerFunctionOrder ==
    \A i, j \in 1 .. Len(Deletions) : i < j => CodeRank(Deletions[i]) <= CodeRank(Deletions[j])

\* The loader is deleted before the notifier's stream binding, and the run
\* goes on to delete the topic, the table and the buckets.
C6_Witness ==
    /\ td_pc = "end"
    /\ \E i, j \in 1 .. Len(Deletions) :
         /\ i < j
         /\ Deletions[i].op = "delete_function"
         /\ Deletions[j].op = "delete_event_source_mapping"
    /\ \E i \in 1 .. Len(Deletions) : Deletions[i].op = "delete_api"
    /\ \E i \in 1 .. Len(Deletions) : Deletions[i].op = "delete_topic"
    /\ \E i \in 1 .. Len(Deletions) : Deletions[i].op = "delete_bucket"

-----------------------------------------------------------------------------
(***************************************************************************)
(* Provisioning: C1, C7, C8, C9, C10                                       *)
(***************************************************************************)

RunOver == d_pc \in {"end", "aborted"}

\* C1 as stated: whatever the first run did, a run of the provisioner that
\* follows another one ends with the resource counts the earlier run left
\* and has created nothing.
C1_SecondRunCreatesNothing ==
    (d_run >= 2 /\ RunOver) => (d_created = {} /\ Counts = d_prev.counts)

\* C1, for a run that follows a completed one: at every point of a run
\* that follows a run which reached DEPLOY OK, nothing has been created and
\* the resource counts are those the earlier run left.
C1_RunAfterCompletedRunCreatesNothing ==
    (d_run >= 2 /\ d_prev.ok) => (d_created = {} /\ Counts = d_prev.counts)

\* A second run has ended after a first one that created resources and
\* completed.
C1_Witness ==
    /\ d_run = 2 /\ d_pc = "end" /\ d_prev.ok
    /\ \E m \in d_prev.created : m.kind = "route"
    /\ \E m \in d_prev.created : m.kind = "function"
    /\ Counts = d_prev.counts

RoutesWithKey(api, key) == {r \in routes : r.api = api /\ r.key = key}

\* The calls the step taken adds to the log of the run.
NewCalls ==
    IF Len(d_calls') > Len(d_calls)
    THEN {d_calls'[i] : i \in (Len(d_calls) + 1) .. Len(d_calls')} ELSE {}

AtMostOneRoutePerKey ==
    \A a \in apis, key \in RouteKeys : Cardinality(RoutesWithKey(a.id, key)) <= 1

CreateRouteOnlyWhenUnregistered ==
    (\E c \in NewCalls : c.op = "create_route")
        => /\ d_pc \in {"route1", "route2"}
           /\ RoutesWithKey(d_loc.api_id, RouteKeyOf(d_pc)) = {}

\* C7: every API has at most one route for each of the two route keys, in
\* every state of any sequence of runs, and create_route is called only
\* when the API has no route with the key.
C7_AtMostOneRoutePerKey ==
    []AtMostOneRoutePerKey /\ [][CreateRouteOnlyWhenUnregistered]_vars

\* A run has gone through ensure_route for both keys on an API whose routes
\* an earlier run created, and has created none.
C7_Witness ==
    /\ d_run = 2 /\ d_pc = "end"
    /\ \E m \in d_prev.created : m.kind = "route"
    /\ \A key \in RouteKeys : Cardinality(RoutesWithKey(d_loc.api_id, key)) = 1
    /\ ~\E m \in d_created : m.kind = "route"

BindingsOf(fn, stream) == {m \in mappings : m.fn = fn /\ m.stream = stream}

AtMostOneBindingPerPair ==
    \A m1, m2 \in mappings : (m1.fn = m2.fn /\ m1.stream = m2.stream) => m1 = m2

ExistingBindingReturned ==
    d_pc = "mapping" =>
        LET had == BindingsOf(FnC(d_env.SUFFIX), d_loc.stream_arn)
        IN IF had # {}
             THEN /\ mappings' = mappings
                  /\ ~\E c \in NewCalls : c.op = "create_event_source_mapping"
                  /\ d_pc' = DNext("mapping") => d_loc'.mapping_uuid \in {m.uuid : m \in had}
             ELSE d_pc' = DNext("mapping")
                     => /\ \E c \in NewCalls : c.op = "create_event_source_mapping"
                        /\ \E m \in mappings' \ mappings :
                             /\ mappings' = mappings \cup {m}
                             /\ m.uuid = d_loc'.mapping_uuid
                             /\ m.fn = FnC(d_env.SUFFIX) /\ m.stream = d_loc.stream_arn

\* C8: no two bindings have the same stream and function, in every state
\* of any sequence of runs; ensure_event_source_mapping returns the
\* identifier of a listed binding of the stream and creates nothing when
\* there is one, and creates the binding of the stream otherwise.
C8_AtMostOneBindingPerPair ==
    []AtMostOneBindingPerPair /\ [][ExistingBindingReturned]_vars

\* A run has been handed the binding an earlier run created.
C8_Witness ==
    /\ d_run = 2 /\ d_pc = "end"
    /\ \E m \in d_prev.created : m.kind = "mapping" /\ m.name = ToString(d_loc.mapping_uuid)
    /\ ~\E m \in d_created : m.kind = "mapping"
    /\ Cardinality(BindingsOf(FnC(d_env.SUFFIX), d_loc.stream_arn)) = 1

CallIndexes(op) == {i \in 1 .. Len(d_calls) : d_calls[i].op = op}

MappingOps == {"list_event_source_mappings", "create_event_source_mapping"}

\* In the log of the run, every call of ensure_event_source_mapping comes
\* after a describe_table of ensure_ddb_table_with_stream.
TableEnsuredBeforeBinding ==
    \A op \in MappingOps : \A i \in CallIndexes(op) :
        \E j \in CallIndexes("describe_table") : j < i

\* The stream ARN main holds is that of the enabled stream of the table.
StreamArnIsOfEnabledStream ==
    d_loc.stream_arn # 0 => (table.exists /\ table.stream = d_loc.stream_arn)

NoStreamArnNoBinding ==
    d_exit = "RuntimeError: No se pudo obtener Stream ARN de DynamoDB"
        => /\ d_pc = "aborted"
           /\ ~\E m \in d_created : m.kind = "mapping"
           /\ \A op \in MappingOps : CallIndexes(op) = {}

BindingOnEnabledStream ==
    \A m \in mappings' \ mappings :
        /\ table.exists /\ table.stream # 0
        /\ m.stream = table.stream

\* C9: a run binds a function only to the enabled stream of the existing
\* table; the table is looked up (and created or updated) before the
\* bindings are listed or created; and a run that obtains no stream ARN
\* aborts having listed and created no binding.
C9_BindingOnlyOnEnabledStream ==
    /\ [](TableEnsuredBeforeBinding /\ StreamArnIsOfEnabledStream /\ NoStreamArnNoBinding)
    /\ [][BindingOnEnabledStream]_vars

\* A run found the table without a stream, enabled it in place and bound
\* the notifier to the new stream.
C9_Witness ==
    /\ d_pc = "end"
    /\ CallIndexes("update_table") # {}
    /\ \E m \in d_created : m.kind = "mapping"
    /\ \E m \in mappings : m.fn = FnC(d_env.SUFFIX) /\ m.stream = table.stream

SettingAbsent == d_env.SUFFIX = Unset \/ d_env.LAMBDA_ROLE_ARN \in {Unset, ""}

ConfigMessages == {"KeyError: 'SUFFIX'", "RuntimeError: Falta LAMBDA_ROLE_ARN en .env"}

AbortsBeforeAnyCall ==
    (d_run >= 1 /\ SettingAbsent)
        => /\ d_calls = <<>> /\ d_created = {}
           /\ d_pc \in {"config", "aborted"}
           /\ d_pc = "aborted" => d_exit \in ConfigMessages
           /\ d_pc = "aborted" =>
                (d_exit = "KeyError: 'SUFFIX'" <=> d_env.SUFFIX = Unset)

ProviderUntouched == (d_run >= 1 /\ SettingAbsent) => UNCHANGED provVars

\* C10: a run without SUFFIX or without LAMBDA_ROLE_ARN (unset or empty)
\* ends at the reading of the settings with the exception that names the
\* missing one, has made no provider call and created nothing, and leaves
\* the provider as it was.
C10_MissingSettingAbortsBeforeAnyCall ==
    []AbortsBeforeAnyCall /\ [][ProviderUntouched]_vars

\* A run without the execution role has aborted on a provider that holds
\* the deployment, a second time.
C10_Witness ==
    /\ d_run = 2 /\ d_pc = "aborted"
    /\ d_env.SUFFIX # Unset /\ d_env.LAMBDA_ROLE_ARN = Unset
    /\ d_exit = "RuntimeError: Falta LAMBDA_ROLE_ARN en .env"
    /\ d_calls = <<>>
    /\ functions # {}

-----------------------------------------------------------------------------
(***************************************************************************)
(* Teardown run again: C11                                                 *)
(***************************************************************************)

\* Nothing the teardown of suffix s manages is left at the provider.
ManagedAbsent(s) ==
    /\ buckets \cap {UploadsBucket(s), WebBucket(s)} = {}
    /\ functions \cap {FnA(s), FnB(s), FnC(s)} = {}
    /\ ~\E m \in mappings : m.fn \in {FnA(s), FnB(s), FnC(s)}
    /\ TopicName(s) \notin topics
    /\ ~table.exists
    /\ ~\E a \in apis : a.name = ApiName(s)

\* A run in which the provider refused nothing it could have done: the only
\* failures were its answers for resources that do not exist.
OnlyNotFound == td_failed = {} /\ td_exc = "None"

NotFoundRaisesNothing == td_pc = "crashed" => (td_exc = "Other" /\ td_faults > 0)

NotFoundRunCleansUp ==
    (td_pc = "end" /\ OnlyNotFound)
        => (ManagedAbsent(td_suffix) /\ Completed /\ EveryCategoryAttempted)

\* C11: a teardown run, whatever part of the deployment is already gone
\* when it starts, is not ended by a not-found answer; the run goes through
\* every block, leaves nothing of the deployment and prints its completion
\* line, unless a call fails for another reason.
C11_TeardownSafeToRerun ==
    /\ [](NotFoundRaisesNothing /\ NotFoundRunCleansUp)
    /\ <>(td_pc = "end" \/ td_faults > 0)

\* A second run, right after a first one that removed everything, has met
\* only not-found answers and completed.
C11_Witness ==
    /\ td_run = 2 /\ td_faults = 0
    /\ Completed /\ EveryCategoryAttempted
    /\ Issued("delete_function", FnA(td_suffix))
    /\ td_printed = {Line("== TEARDOWN ==", 0), Line("== DONE ==", 0)}
    /\ ManagedAbsent(td_suffix)

-----------------------------------------------------------------------------
(***************************************************************************)
(* Provisioning, errors and order: C12                                     *)
(***************************************************************************)

\* The calls of the run that the provider answered with an error that is
\* neither not-found nor already-exists.
UnexpectedAt == {i \in 1 .. Len(d_calls) : d_calls[i].err = "ClientError"}

\* C12 as stated: a provider error that is neither a not-found nor an
\* already-exists answer is the last call of the run, and the run aborts
\* with that error.
C12_UnexpectedErrorAborts ==
    \A i \in UnexpectedAt :
        /\ i = Len(d_calls)
        /\ d_pc = "aborted"
        /\ d_exit = "ClientError"

\* The handlers that stop every ClientError, whatever its code: the one of
\* head_bucket in ensure_bucket and the one of get_stage and update_stage in
\* ensure_http_api.
CatchAllOps == {"head_bucket", "get_stage", "update_stage"}

UnexpectedErrorAbortsElsewhere ==
    \A i \in UnexpectedAt :
        d_calls[i].op \notin CatchAllOps
            => (i = Len(d_calls) /\ d_pc = "aborted" /\ d_exit = "ClientError")

CatchAllGoesOn ==
    \A i \in UnexpectedAt :
        d_calls[i].op \in CatchAllOps
            => /\ i < Len(d_calls)
               /\ d_calls[i + 1].op = IF d_calls[i].op = "head_bucket"
                                      THEN "create_bucket" ELSE "create_stage"

-----------------------------------------------------------------------------
(***************************************************************************)
(* Isolation by suffix: C13                                                *)
(***************************************************************************)

\* Everything of the other deployment but its table is as it was.
OtherIntactExceptTable ==
    LET r == OtherResources
    IN /\ r.apis \subseteq apis /\ r.integrations \subseteq integrations
       /\ r.routes \subseteq routes /\ r.stages \subseteq stages
       /\ r.functions \subseteq functions
       /\ {m \in mappings : m.fn \in r.functions} = r.mappings
       /\ {x \in perms : x.fn \in r.functions} = r.perms
       /\ r.topics \subseteq topics
       /\ {x \in subs : x.topic \in r.topics} = r.subs
       /\ r.buckets \subseteq buckets
       /\ \A b \in r.buckets : bucketItems[b] = r.items[b]

\* C13: while the teardown or the provisioner runs for one suffix, every
\* resource of the deployment with the other suffix, its table included,
\* stays as it was.
C13_OtherDeploymentUntouched ==
    OtherIntactExceptTable /\ table = OtherResources.table

-----------------------------------------------------------------------------
(***************************************************************************)
(* Claims about the handlers                                               *)
(***************************************************************************)

\* Ten times the number each count text of StreamRecords denotes.
TenTimes ==
    (<<"1">> :> 10) @@ (<<"2">> :> 20) @@ (<<"3">> :> 30) @@
    (<<"-", "1">> :> 0 - 10) @@ (<<"1", ".", "5">> :> 15)

Returned(name) == h_pc = "returned" /\ h_in.handler = name

\* The records of the batch for which pick holds, in batch order.
Picked(pick(_)) == SelectSeq(h_in.event, pick)

InsertOrModify(r) == r.eventName \in {"INSERT", "MODIFY"}

AtOrBelow(r) ==
    r.present /\ r.Count \in DOMAIN TenTimes /\ TenTimes[r.Count] <= 10 * h_in.threshold

WholeAtOrBelow(r) ==
    /\ AtOrBelow(r)
    /\ TenTimes[r.Count] % 10 = 0
    /\ r.Store # Unset /\ r.Item # Unset

\* C14 as stated: when the notifier returns, it has published one message
\* for each INSERT or MODIFY record whose new-image count is at or below the
\* threshold and none for any other record, and alerts_sent is the number of
\* messages published.
C14_OnePublishPerLowRecord ==
    Returned("notify") =>
        /\ Len(h_pub) = Len(Picked(LAMBDA r : InsertOrModify(r) /\ AtOrBelow(r)))
        /\ h_ret.alerts_sent = Len(h_pub)

\* C14 amended: when the notifier returns, it has published, in batch order,
\* exactly one message for each INSERT or MODIFY record whose new image
\* carries a store, an item and a whole-number count at or below the
\* threshold (the message names that store, item, count and the threshold),
\* no message for any other record (none for a REMOVE record, for a record
\* lacking store or item, or for a count that is not a whole number), and
\* alerts_sent is the number of messages published.
C14_OnePublishPerWholeLowRecord ==
    Returned("notify") =>
        LET low == Picked(LAMBDA r : InsertOrModify(r) /\ WholeAtOrBelow(r))
        IN /\ h_pub = [i \in 1 .. Len(low) |->
                         [type |-> "LOW_STOCK", store |-> low[i].Store,
                          item |-> low[i].Item, count |-> TenTimes[low[i].Count] \div 10,
                          threshold |-> h_in.threshold]]
           /\ h_ret.alerts_sent = Len(h_pub)
           /\ h_ret.ok

\* A batch of an INSERT with count 1 and a REMOVE with count 1, threshold 2:
\* one message, for the INSERT.
C14_Witness ==
    /\ Returned("notify")
    /\ h_in.threshold = 2
    /\ Len(h_in.event) = 2
    /\ h_in.event[1].eventName = "INSERT" /\ h_in.event[1].Count = <<"1">>
    /\ h_in.event[2].eventName = "REMOVE" /\ h_in.event[2].Count = <<"1">>
    /\ h_in.event[2].Store = "Berlin" /\ h_in.event[2].Item = "apple"
    /\ Len(h_pub) = 1 /\ h_pub[1].count = 1
    /\ h_ret.alerts_sent = 1

\* The data rows of the batch, as <<file, row>> positions, and their order.
RowIndexes ==
    {p \in (1 .. Len(h_in.event)) \X (1 .. MaxRows) : p[2] <= Len(h_in.event[p[1]].rows)}

Before(p, q) == p[1] < q[1] \/ (p[1] = q[1] /\ p[2] < q[2])

\* The text row p carries for a column: the non-empty cell under the
\* lower-case name, else the non-empty cell under the capitalized name, else
\* the empty text.
Value(p, lower, cap) ==
    LET header == h_in.event[p[1]].header
        cells == h_in.event[p[1]].rows[p[2]]
        Under(name) == {cells[i] : i \in {i \in 1 .. Len(header) : header[i] = name}}
                       \ {<<>>}
    IN IF Under(lower) # {} THEN CHOOSE t \in Under(lower) : TRUE
       ELSE IF Under(cap) # {} THEN CHOOSE t \in Under(cap) : TRUE
       ELSE <<>>

\* The integer each count text of CsvFiles stands for once blanks are
\* trimmed, 0 for a text that is no integer numeral.
CountMeaning ==
    (<<>> :> 0) @@ (<<"7">> :> 7) @@ (<<"7", "x">> :> 0) @@ (<<"-", "1">> :> 0 - 1)

\* C15 as stated: for every batch the loader returns the number of rows it
\* wrote, and a row is written exactly if its store and item are present
\* and non-empty.
C15_WritesRowsWithStoreAndItem ==
    Returned("ingest") =>
        /\ "written" \in DOMAIN h_ret
        /\ h_ret.written = Cardinality({p \in RowIndexes :
                                           /\ Value(p, "store", "Store") # <<>>
                                           /\ Value(p, "item", "Item") # <<>>})

\* C15 amended: on a batch with at least one record, a row is written
\* exactly if its store and item are non-empty once surrounding blanks are
\* trimmed; the item is keyed by the trimmed store and item and replaces
\* any item of that key (the last such row of the batch stands); its count
\* is the integer the count column reads as, 0 when it is missing, empty or
\* no integer numeral; a column is read under its lower-case name if that
\* cell is non-empty, else under the capitalized name; items of other keys
\* are left as they were; and the loader returns the number of rows written.
\* On a batch with no record it writes nothing and returns a message
\* without a count.
C15_WritesRowsWithTrimmedStoreAndItem ==
    Returned("ingest") =>
        LET Key(p) == <<Strip(Value(p, "store", "Store")), Strip(Value(p, "item", "Item"))>>
            rows == {p \in RowIndexes : Key(p)[1] # <<>> /\ Key(p)[2] # <<>>}
            Last(k) == CHOOSE p \in rows :
                          Key(p) = k /\ \A q \in rows : Key(q) = k => ~Before(p, q)
        IN IF h_in.event = <<>>
             THEN h_ret = [ok |-> TRUE, msg |-> "no records"] /\ h_items = h_in.items
             ELSE /\ h_ret = [ok |-> TRUE, written |-> Cardinality(rows)]
                  /\ h_items =
                       {x \in h_in.items : \A p \in rows : Key(p) # <<x.Store, x.Item>>}
                       \cup {[Store |-> k[1], Item |-> k[2],
                              Count |-> CountMeaning[Strip(Value(Last(k), "count", "Count"))]] :
                                k \in {Key(p) : p \in rows}}

\* One file under capitalized column names: a row with a count that is no
\* numeral replaces the item of its key with count 0, a row without a store
\* is skipped.
C15_Witness ==
    /\ Returned("ingest")
    /\ Len(h_in.event) = 1
    /\ h_in.event[1].header = <<"Store", "Item", "Count">>
    /\ h_in.event[1].rows = << <<<<"B">>, <<"a">>, <<"7", "x">>>>, <<<<>>, <<"a">>, <<"7">>>> >>
    /\ h_in.items = {[Store |-> <<"B">>, Item |-> <<"a">>, Count |-> 9]}
    /\ h_items = {[Store |-> <<"B">>, Item |-> <<"a">>, Count |-> 0]}
    /\ h_ret.written = 1

\* The rows of the table whose store passes keep, as the response lists
\* them.
Listed(keep(_)) ==
    {[store |-> i.Store, item |-> i.Item, count |-> i.Count] : i \in {i \in h_items : keep(i.Store)}}

OptionsAnswered ==
    h_in.method = "OPTIONS" => h_ret.statusCode = 200 /\ h_ret.body = [ok |-> TRUE] /\ h_log = <<>>

\* C16 as stated: a request with store path parameter S is answered with
\* exactly the rows of the table whose store is S, a request without one
\* with all rows of the table, and an OPTIONS request with status 200
\* without a read of the table.
C16_ResponseHoldsRequestedRows ==
    Returned("query") =>
        /\ OptionsAnswered
        /\ h_in.method # "OPTIONS" =>
             /\ h_ret.statusCode = 200
             /\ h_ret.body = IF h_in.store # <<>> THEN Listed(LAMBDA st : st = h_in.store)
                             ELSE Listed(LAMBDA st : TRUE)

\* What the query handler does keep: an OPTIONS request is answered 200
\* without a read; any other request makes one read and lists only
\* requested rows, all of them when they fit in one page of the table.
QueryListsFirstPage ==
    Returned("query") =>
        /\ OptionsAnswered
        /\ h_in.method # "OPTIONS" =>
             LET asked == IF h_in.store # <<>> THEN Listed(LAMBDA st : st = h_in.store)
                          ELSE Listed(LAMBDA st : TRUE)
             IN /\ h_ret.statusCode = 200
                /\ Len(h_log) = 1
                /\ h_ret.body \subseteq asked
                /\ Cardinality(asked) <= PageRows => h_ret.body = asked

-----------------------------------------------------------------------------
(***************************************************************************)
(* Claims about the order of the provisioner's calls                       *)
(***************************************************************************)

MutatingOps == {"create_function", "update_function_code", "update_function_configuration"}

\* The positions in the log of the run of the mutating calls on function fn
\* and of the polls of fn that returned ready.
Mutations(fn) == {i \in 1 .. Len(d_calls) : d_calls[i].op \in MutatingOps /\ d_calls[i].tgt = fn}

ReadyPolls(fn) ==
    {i \in 1 .. Len(d_calls) :
        d_calls[i].op = "wait_lambda_ready" /\ d_calls[i].tgt = fn /\ d_calls[i].err = ""}

PolledBetween(fn, i, j) == \E w \in ReadyPolls(fn) : i < w /\ w < j

\* The ARN main holds for function fn ("" while it holds none).
HeldArn(fn) ==
    IF fn = FnA(d_env.SUFFIX) THEN d_loc.arn_a
    ELSE IF fn = FnB(d_env.SUFFIX) THEN d_loc.arn_b ELSE d_loc.arn_c

RanFunctions == {FnA(d_env.SUFFIX), FnB(d_env.SUFFIX), FnC(d_env.SUFFIX)}

UpdateOnlyAfterReady ==
    \A fn \in RanFunctions : \A j \in Mutations(fn) :
        d_calls[j].op # "create_function" => PolledBetween(fn, 0, j)

ArnOnlyAfterReady ==
    \A fn \in RanFunctions :
        HeldArn(fn) # "" =>
            /\ Mutations(fn) # {}
            /\ \A i \in Mutations(fn) : d_calls[i].err = "" /\ PolledBetween(fn, i, Len(d_calls) + 1)

\* C17 as stated: in the log of a run, between a mutating call that
\* returned and a later mutating call on the same function there is a poll
\* of the function that returned ready; main holds the
\* ARN of a function only after a ready poll that follows the last mutating
\* call on it; an update is issued only after a ready poll of the function.
C17_ReadyBeforeNextMutation ==
    /\ \A fn \in RanFunctions : \A i, j \in Mutations(fn) :
           (i < j /\ d_calls[i].err = "") => PolledBetween(fn, i, j)
    /\ ArnOnlyAfterReady
    /\ UpdateOnlyAfterReady

\* C17 amended: the same, except that create_function is issued with no
\* ready poll since the last mutating call when the poll that followed that
\* call answered that the function does not exist.
C17_ReadyBeforeNextMutationUnlessGone ==
    /\ \A fn \in RanFunctions : \A i, j \in Mutations(fn) :
           (i < j /\ d_calls[i].err = "")
               => \/ PolledBetween(fn, i, j)
                  \/ /\ d_calls[j].op = "create_function"
                     /\ d_calls[j - 1].op = "wait_lambda_ready"
                     /\ d_calls[j - 1].tgt = fn /\ d_calls[j - 1].err = "NotFound"
    /\ ArnOnlyAfterReady
    /\ UpdateOnlyAfterReady

\* A run has updated an existing function (code, then configuration, a
\* ready poll before, between and after) and created another (ready poll
\* after), and holds both ARNs.
C17_Witness ==
    /\ d_loc.arn_a # "" /\ d_loc.arn_b # ""
    /\ \E i \in Mutations(FnA(d_env.SUFFIX)) : d_calls[i].op = "update_function_configuration"
    /\ \E i \in Mutations(FnB(d_env.SUFFIX)) : d_calls[i].op = "create_function"
    /\ Cardinality(ReadyPolls(FnA(d_env.SUFFIX))) = 3
    /\ Cardinality(ReadyPolls(FnB(d_env.SUFFIX))) = 1

\* Whether the log of the run holds a call of one of ops (on target tgt).
Called(ops) == \E i \in 1 .. Len(d_calls) : d_calls[i].op \in ops

CalledOn(tgt) == \E i \in 1 .. Len(d_calls) : d_calls[i].tgt = tgt

BothBucketsEnsured ==
    /\ {UploadsBucket(d_env.SUFFIX), WebBucket(d_env.SUFFIX)} \subseteq buckets
    /\ \A b \in {UploadsBucket(d_env.SUFFIX), WebBucket(d_env.SUFFIX)} :
         \E i \in 1 .. Len(d_calls) :
            /\ d_calls[i].tgt = b
            /\ \/ d_calls[i].op = "head_bucket" /\ d_calls[i].err = ""
               \/ d_calls[i].op = "create_bucket" /\ d_calls[i].err = ""
            /\ \A j \in 1 .. Len(d_calls) :
                  d_calls[j].op \in {"put_bucket_notification_configuration", "put_object"}
                      => i < j

FunctionEnsured(fn) == fn \in functions /\ HeldArn(fn) = "arn:" \o fn

EnsuredBeforeUse ==
    /\ Called({"put_bucket_notification_configuration", "put_object"}) => BothBucketsEnsured
    /\ CalledOn(FnC(d_env.SUFFIX)) =>
          /\ TopicName(d_env.SUFFIX) \in topics
          /\ d_loc.topic_arn = "arn:" \o TopicName(d_env.SUFFIX)
          /\ \E i \in 1 .. Len(d_calls) :
                /\ d_calls[i].op = "create_topic" /\ d_calls[i].err = ""
                /\ \A j \in 1 .. Len(d_calls) : d_calls[j].tgt = FnC(d_env.SUFFIX) => i < j
    /\ Called({"put_bucket_notification_configuration"}) => FunctionEnsured(FnA(d_env.SUFFIX))
    /\ Called({"get_integrations", "create_integration"}) => FunctionEnsured(FnB(d_env.SUFFIX))
    /\ Called({"list_event_source_mappings", "create_event_source_mapping"}) =>
          /\ FunctionEnsured(FnC(d_env.SUFFIX))
          /\ table.exists /\ table.stream # 0 /\ d_loc.stream_arn = table.stream

\* Once an exception has left main, the run makes no further call.
NoCallAfterAbort ==
    [][d_pc = "aborted" => (d_calls' = d_calls \/ d_calls' = <<>>)]_vars

\* C18: whenever a run has called the bucket trigger or uploaded the web
\* folder, both buckets were ensured before; whenever it has made a call on
\* the notification function, the topic was ensured before and its ARN is
\* held; the trigger is set only with the ingestion function ensured, the
\* API integration only with the query function ensured, and the stream
\* binding only with the table stream and the notification function
\* ensured; and a run that an exception has left makes no further call.
C18_EnsuredBeforeReferenced == []EnsuredBeforeUse /\ NoCallAfterAbort

\* A run has gone through every step: trigger, integration, binding and
\* upload were called, and the run created the functions and the topic.
C18_Witness ==
    /\ d_pc = "end"
    /\ Called({"put_bucket_notification_configuration"}) /\ Called({"put_object"})
    /\ Called({"create_integration"}) /\ Called({"create_event_source_mapping"})
    /\ Called({"create_function"}) /\ Called({"create_bucket"})
    /\ EnsuredBeforeUse

-----------------------------------------------------------------------------
(***************************************************************************)
(* Claims about bucket removal and about what the provisioner deletes      *)
(***************************************************************************)

\* The positions of the calls of op on bucket b in the log of the run.
BucketCalls(op, b) == {i \in 1 .. Len(td_calls) : td_calls[i].op = op /\ td_calls[i].tgt = b}

\* In the log of the run, every delete_bucket on a bucket comes after a
\* list_objects_v2 on it, which comes after a list_object_versions on it;
\* every delete_objects on it comes before the delete_bucket and directly
\* after one of the two listings.
EmptiedBeforeDeleteBucket ==
    \A b \in {UploadsBucket(td_suffix), WebBucket(td_suffix)} :
        /\ \A d \in BucketCalls("delete_bucket", b) :
              /\ \E o \in BucketCalls("list_objects_v2", b) :
                    /\ o < d
                    /\ \E v \in BucketCalls("list_object_versions", b) : v < o
              /\ \A x \in BucketCalls("delete_objects", b) : x < d
        /\ \A x \in BucketCalls("delete_objects", b) :
              x > 1 /\ td_calls[x - 1].tgt = b
              /\ td_calls[x - 1].op \in {"list_object_versions", "list_objects_v2"}
        /\ \A o \in BucketCalls("list_objects_v2", b) :
              \E v \in BucketCalls("list_object_versions", b) : v < o

\* A step that removes a bucket ends with delete_bucket on it, leaves it
\* with nothing in it, and has called delete_objects on it if it held
\* anything.
BucketRemovedOnlyEmptied ==
    \A b \in AllBuckets :
        (b \in buckets /\ b \notin buckets') =>
            /\ Len(td_calls') > Len(td_calls)
            /\ td_calls'[Len(td_calls')] = Call("delete_bucket", CatBucket, b, 0, TRUE)
            /\ bucketItems'[b] = {}
            /\ bucketItems[b] # {} =>
                 \E x \in (Len(td_calls) + 1) .. Len(td_calls') :
                    td_calls'[x].op = "delete_objects" /\ td_calls'[x].tgt = b

EnsureOps ==
    {"get_caller_identity", "head_bucket", "create_bucket", "describe_table", "create_table",
     "update_table", "wait_table_exists", "get_function", "wait_lambda_ready",
     "update_function_code", "update_function_configuration", "create_function",
     "create_topic", "subscribe", "add_permission", "put_bucket_notification_configuration",
     "get_apis", "create_api", "get_integrations", "create_integration", "get_routes",
     "create_route", "get_stage", "update_stage", "create_stage", "get_api",
     "list_event_source_mappings", "create_event_source_mapping", "put_object"}

NothingRemoved ==
    /\ buckets \subseteq buckets'
    /\ table.exists => table'.exists
    /\ functions \subseteq functions'
    /\ topics \subseteq topics'
    /\ apis \subseteq apis'
    /\ integrations \subseteq integrations'
    /\ routes \subseteq routes'
    /\ mappings \subseteq mappings'

\* C20: in any sequence of provisioning runs from any starting state, the
\* log of a run holds no call other than a read, a create or an update, and
\* no step removes a bucket, the table, a function, a topic, an API, an
\* integration, a route or a stream binding.
C20_NoDeletionByProvisioner ==
    [](\A i \in 1 .. Len(d_calls) : d_calls[i].op \in EnsureOps) /\ [][NothingRemoved]_vars

\* A second run has completed on the resources the first run left: it
\* updated the functions, and every resource is still there.
C20_Witness ==
    /\ d_run = 2 /\ d_pc = "end"
    /\ d_prev.counts.functions = 3 /\ d_prev.counts.routes >= 2
    /\ Counts = d_prev.counts
    /\ Called({"update_function_configuration"})

-----------------------------------------------------------------------------
(***************************************************************************)
(* Claims about the function loop of the teardown                          *)
(***************************************************************************)

\* The positions of the calls of op on function fn in the log of the run.
FnCalls(op, fn) == {i \in 1 .. Len(td_calls) : td_calls[i].op = op /\ td_calls[i].tgt = fn}

TornFunctions == {FnA(td_suffix), FnB(td_suffix), FnC(td_suffix)}

\* In the log of the run every delete_event_source_mapping for a function
\* comes after the listing of its bindings and before its delete_function.
BindingsBeforeFunction ==
    \A fn \in TornFunctions : \A m \in FnCalls("delete_event_source_mapping", fn) :
        /\ \E l \in FnCalls("list_event_source_mappings", fn) : l < m
        /\ \A f \in FnCalls("delete_function", fn) : m < f

NewTdCalls == SubSeq(td_calls', Len(td_calls) + 1, Len(td_calls'))

\* A pass of the function loop for fn: unless an exception that is no
\* ClientError ends the run, either the listing of the bindings failed and
\* the pass made no other call, or the pass attempted the deletion of every
\* binding the function had and then delete_function.
PassAttemptsAll(fn) ==
    LET new == NewTdCalls
        had == {m.uuid : m \in {x \in mappings : x.fn = fn}}
    IN /\ td_pc' = "crashed" => td_exc' = "Other"
       /\ td_pc' # "crashed" =>
            \/ /\ Len(new) = 1 /\ new[1].op = "list_event_source_mappings"
               /\ "list_event_source_mappings" \in td_failed'
            \/ /\ \A u \in had : \E j \in 1 .. Len(new) :
                     new[j].op = "delete_event_source_mapping" /\ new[j].id = u
               /\ new[Len(new)] = Call("delete_function", CatFunction, fn, 0, TRUE)

FunctionPass ==
    \A i \in 1 .. 3 :
        (td_pc = "fn" \o ToString(i) /\ td_pc' # td_pc) =>
            PassAttemptsAll(<<FnA(td_suffix), FnB(td_suffix), FnC(td_suffix)>>[i])

\* A run that reached its end listed the bindings of each function, and
\* attempted delete_function for each function whose listing did not fail.
CompletedRunTriedEachFunction ==
    td_pc = "end" =>
        \A fn \in TornFunctions :
            /\ FnCalls("list_event_source_mappings", fn) # {}
            /\ \/ FnCalls("delete_function", fn) # {}
               \/ "list_event_source_mappings" \in td_failed

-----------------------------------------------------------------------------
(***************************************************************************)
(* The order of the checks in wait_lambda_ready                            *)
(***************************************************************************)

\* A step in which the status query of a poll answered.
Answered == w_pc = "poll" /\ w_polls' = w_polls + 1 /\ w_pc' # "error"

\* A poll that observes the ready state returns, however long the wait has
\* lasted; a poll raises only when the timeout has passed, and sleeps
\* otherwise.
ReadyCheckedFirst ==
    Answered =>
        /\ ReadyState(w_obs') => w_pc' = "returned"
        /\ ~ReadyState(w_obs') =>
              w_pc' = (IF w_now' - w_t0 > w_timeout THEN "raised" ELSE "sleep")

\* wait_lambda_ready has not ended before its first status query, and a
\* timeout is raised only on an observation that is not the ready state.
QueriedBeforeEnd ==
    /\ w_pc \in {"returned", "raised", "error", "sleep"} => w_polls >= 1
    /\ w_pc = "raised" =>
          w_obs # NoObs /\ ~ReadyState(w_obs) /\ w_err.cls = "TimeoutError"

\* C22: wait_lambda_ready queries the status at least once whatever the
\* timeout; a poll that observes the ready state returns success even when
\* more than timeout_s has elapsed; a TimeoutError is raised only on a poll
\* that observed a state that is not ready.
C22_ReadyCheckedBeforeTimeout == []QueriedBeforeEnd /\ [][ReadyCheckedFirst]_vars

\* The function is found ready by a later poll, after more than timeout_s:
\* wait_lambda_ready returns.
C22_Witness ==
    /\ w_pc = "returned"
    /\ w_polls >= 2
    /\ ReadyState(w_obs)
    /\ w_now - w_t0 > w_timeout

====
